---- MODULE Spec2Model ----
(***************************************************************************)
(* A model of the type checker of the compiler                             *)
(* (src/libcobra/src/typechecker/typecheck.rs).                            *)
(*                                                                         *)
(* Types and expressions are records tagged by a field (k for types, kind  *)
(* for expressions).  Every checking function of typecheck.rs is an        *)
(* operator that takes the context and the node and returns a check        *)
(* result: whether it succeeded, the type, the node as the function left   *)
(* it (the source mutates nodes in place, also on the paths that end in    *)
(* an error) and the context as the function left it.                      *)
(***************************************************************************)
EXTENDS Integers, Sequences, FiniteSets, TLC

VARIABLES
    module,       \* the Module type_check_module works on
    ctx,          \* the TypeCheckerContext of the current pass
    pc,           \* where type_check_module is: loop, globals, functions, done
    result,       \* what type_check_module returned: running, Ok, Err
    todo,         \* the globals or functions the current for loop has not finished
    count,        \* the function count taken before instantiate_generics
    grew,         \* whether the last instantiate_generics added a function
    pass_start,   \* the module as it was when the current pass started
    iteration,    \* the number of passes started
    first_check,  \* the module after a first successful check, when re-checked
    x_input,      \* expression checks: the expression and the hint
    x_result      \* expression checks: the result of type_check_expression

vars == <<module, ctx, pc, result, todo, count, grew, pass_start, iteration, first_check,
          x_input, x_result>>

\* K applied to the value of v, computed once: a call of the source whose
\* result the caller goes on with.
after(v, K(_)) == CHOOSE x \in {K(r) : r \in {v}} : TRUE

(***************************************************************************)
(* Types (ast/types.rs is not part of the sources; the constructors follow *)
(* the data model of the specification).                                   *)
(***************************************************************************)
Int_t == [k |-> "Int"]
Bool_t == [k |-> "Bool"]
String_t == [k |-> "String"]
Void_t == [k |-> "Void"]
Nil_t == [k |-> "Nil"]
Unknown_t == [k |-> "Unknown"]
UInt_t == [k |-> "UInt"]
Float_t == [k |-> "Float"]

optional_type(t) == [k |-> "Optional", e |-> t]

array_type(t, n) == [k |-> "Array", e |-> t, len |-> n]

slice_type(t) == [k |-> "Slice", e |-> t]

func_type(args, ret) == [k |-> "Func", args |-> args, ret |-> ret]

generic_type(name) == [k |-> "Generic", name |-> name]

ptr_type(t) == [k |-> "Pointer", e |-> t]

struct_member(name, t) == [name |-> name, typ |-> t]

\* Named structs and sums compare nominally with their members.
struct_type(name, members) == [k |-> "Struct", name |-> name, members |-> members]

sum_type_case(name, t) == [name |-> name, typ |-> t]

sum_type(name, cases) == [k |-> "Sum", name |-> name, cases |-> cases]

\* The cases of an enum are names.
enum_type(name, cases) ==
    [k |-> "Enum", name |-> name, cases |-> [i \in DOMAIN cases |-> [name |-> cases[i]]]]

\* The absent type hint (&None) of type_check_expression.
NoHint == [k |-> "NoHint"]

RECURSIVE is_generic(_)
\* Type::is_generic: some sub-term is a Generic.
is_generic(t) ==
    CASE t.k = "Generic" -> TRUE
      [] t.k \in {"Optional", "Array", "Slice", "Pointer"} -> is_generic(t.e)
      [] t.k = "Func" -> is_generic(t.ret) \/ \E i \in DOMAIN t.args : is_generic(t.args[i])
      [] t.k = "Struct" -> \E i \in DOMAIN t.members : is_generic(t.members[i].typ)
      [] t.k = "Sum" -> \E i \in DOMAIN t.cases : is_generic(t.cases[i].typ)
      [] OTHER -> FALSE

is_unknown(t) == t = Unknown_t

is_numeric(t) == t.k \in {"Int", "UInt", "Float"}

is_bool(t) == t = Bool_t

is_optional(t) == t.k = "Optional"

\* Type::get_property_type: the fixed properties of arrays and strings,
\* with the member access that replaces the name.
get_property_type(t, name) ==
    IF t.k \in {"Array", "String"} /\ name \in {"length", "data"}
    THEN [found |-> TRUE,
          typ |-> IF name = "length" THEN UInt_t
                  ELSE ptr_type(IF t.k = "Array" THEN t.e ELSE [k |-> "Char"]),
          right |-> [kind |-> "Property", name |-> name]]
    ELSE [found |-> FALSE, typ |-> Unknown_t, right |-> [kind |-> "Property", name |-> name]]

is_sequence(t) == t.k \in {"Array", "Slice", "String"}

\* Type::get_element_type, of an array, slice, string or optional.
get_element_type(t) == IF t.k = "String" THEN [k |-> "Char"] ELSE t.e

\* Type::is_matchable: a pattern of the type of the target matches, and an
\* array pattern matches a sequence of its element type.
is_matchable(t, pattern_type) ==
    \/ t = pattern_type
    \/ is_sequence(t) /\ pattern_type.k = "Array" /\ get_element_type(t) = pattern_type.e

\* SumType::index_of: the position of the case of that name, written with
\* or without the name of the module; 0 if there is none.
index_of(st, name) ==
    IF \E i \in DOMAIN st.cases : name \in {st.cases[i].name, "m::" \o st.cases[i].name}
    THEN CHOOSE i \in DOMAIN st.cases : name \in {st.cases[i].name, "m::" \o st.cases[i].name}
    ELSE 0

\* Type::is_optional_of: self is Optional(other).
is_optional_of(t, other) == t.k = "Optional" /\ t.e = other

\* Type::is_operator_supported: arithmetic on numerics, + on strings,
\* comparison on ordered primitives, equality on anything structural.
is_operator_supported(t, op) ==
    CASE op \in {"Add"} -> is_numeric(t) \/ t = String_t
      [] op \in {"Sub", "Mul", "Div", "Mod"} -> is_numeric(t)
      [] op \in {"LessThan", "GreaterThan", "LessThanEquals", "GreaterThanEquals"} ->
            is_numeric(t) \/ t.k \in {"Char", "String"}
      [] op \in {"Equals", "NotEquals"} -> TRUE
      [] OTHER -> FALSE

RECURSIVE type_name(_)
\* The text of a type, as it appears in the mangled name of a clone.
type_name(t) ==
    CASE t.k = "Optional" -> "?" \o type_name(t.e)
      [] t.k = "Array" -> "[" \o type_name(t.e) \o "]"
      [] t.k = "Slice" -> "[" \o type_name(t.e) \o ";]"
      [] t.k = "Pointer" -> "*" \o type_name(t.e)
      [] t.k = "Generic" -> "$" \o t.name
      [] t.k = "Func" -> "fn"
      [] OTHER -> t.k

(***************************************************************************)
(* The scope stack (typecheckercontext.rs is not part of the sources; the  *)
(* operations follow section 4.2 of the specification).  uuid counts the   *)
(* UUIDs drawn so far by type_check_lambda: Uuid::new_v4 never returns a   *)
(* value it returned before.                                               *)
(***************************************************************************)
ModuleName == "m"

full_name_of(name) == ModuleName \o "::" \o name

new_context(uuid) == [stack |-> <<>>, globals |-> <<>>, uuid |-> uuid]

push_stack(c, boundary) ==
    [c EXCEPT !.stack = Append(@, [boundary |-> boundary, names |-> <<>>])]

pop_stack(c) ==
    IF Len(c.stack) = 0 THEN c
    ELSE [c EXCEPT !.stack = SubSeq(@, 1, Len(@) - 1)]

\* The entry of name in a list of entries (the last one added wins), or none.
NoEntry == [name |-> "", full_name |-> "", typ |-> Unknown_t, mutable |-> FALSE, found |-> FALSE]

lookup(entries, name) ==
    LET hits == {i \in DOMAIN entries : entries[i].name = name \/ entries[i].full_name = name}
    IN IF hits = {} THEN NoEntry
       ELSE LET i == CHOOSE j \in hits : \A h \in hits : h <= j
            IN [name |-> entries[i].name, full_name |-> entries[i].full_name,
                typ |-> entries[i].typ, mutable |-> entries[i].mutable, found |-> TRUE]

entry(name, full, typ, mutable) ==
    [name |-> name, full_name |-> full, typ |-> typ, mutable |-> mutable]

\* add: fails (ok = FALSE) when the name is already in the top frame.
add(c, name, typ, mutable) ==
    IF Len(c.stack) = 0
    THEN [ok |-> ~lookup(c.globals, name).found,
          ctx |-> IF lookup(c.globals, name).found THEN c
                  ELSE [c EXCEPT !.globals = Append(@, entry(name, name, typ, mutable))]]
    ELSE LET top == Len(c.stack)
         IN IF lookup(c.stack[top].names, name).found
            THEN [ok |-> FALSE, ctx |-> c]
            ELSE [ok |-> TRUE,
                  ctx |-> [c EXCEPT !.stack[top].names = Append(@, entry(name, name, typ, mutable))]]

\* add_global: the globals layer, seen across function boundaries.
add_global(c, name, typ, mutable) ==
    IF lookup(c.globals, name).found
    THEN [ok |-> FALSE, ctx |-> c]
    ELSE [ok |-> TRUE,
          ctx |-> [c EXCEPT !.globals = Append(@, entry(name, full_name_of(name), typ, mutable))]]

RECURSIVE resolve_from(_, _, _)
\* The search of resolve from frame i downwards: a function-boundary frame
\* hides the frames below it; the globals are searched last.
resolve_from(c, name, i) ==
    IF i = 0 THEN lookup(c.globals, name)
    ELSE LET hit == lookup(c.stack[i].names, name)
         IN IF hit.found THEN hit
            ELSE IF c.stack[i].boundary THEN lookup(c.globals, name)
            ELSE resolve_from(c, name, i - 1)

resolve(c, name) == resolve_from(c, name, Len(c.stack))

RECURSIVE update_from(_, _, _, _, _)
\* The search of update from frame i downwards.
update_from(c, name, typ, mutable, i) ==
    IF i = 0 THEN c
    ELSE IF \E j \in DOMAIN c.stack[i].names : c.stack[i].names[j].name = name
    THEN [c EXCEPT !.stack[i].names =
              [j \in DOMAIN @ |-> IF @[j].name = name
                                  THEN [@[j] EXCEPT !.typ = typ, !.mutable = mutable] ELSE @[j]]]
    ELSE update_from(c, name, typ, mutable, i - 1)

\* update: the entry of the name in the innermost frame that has one is
\* overwritten.
update(c, name, typ, mutable) == update_from(c, name, typ, mutable, Len(c.stack))

(***************************************************************************)
(* Expressions.  Every node carries the fields the checker writes.         *)
(***************************************************************************)
literal(t) == [kind |-> "Literal", typ |-> t]

array_lit(elements) == [kind |-> "ArrayLiteral", elements |-> elements, array_type |-> Unknown_t]

name_ref(name) == [kind |-> "NameRef", name |-> name, typ |-> Unknown_t]

unary_op(op, e) == [kind |-> "UnaryOp", operator |-> op, expression |-> e, typ |-> Unknown_t]

bin_op(op, l, r) == [kind |-> "BinaryOp", operator |-> op, left |-> l, right |-> r, typ |-> Unknown_t]

call(name, args) ==
    [kind |-> "Call", callee |-> name_ref(name), args |-> args, generic_args |-> <<>>,
     return_type |-> Unknown_t]

argument(name, t) == [name |-> name, typ |-> t, mutable |-> FALSE]

sig(name, args, ret) ==
    [name |-> name, args |-> args, return_type |-> ret,
     typ |-> func_type([i \in DOMAIN args |-> args[i].typ], ret)]

lambda(args, e) == [kind |-> "Lambda", sig |-> sig("lambda", args, Unknown_t), expr |-> e]

block(es) == [kind |-> "Block", expressions |-> es, typ |-> Unknown_t]

nil_expr == [kind |-> "Nil"]

void_expr == [kind |-> "Void"]

to_optional(inner, t) == [kind |-> "ToOptional", inner |-> inner, optional_type |-> t]

array_to_slice(inner) == [kind |-> "ArrayToSlice", inner |-> inner, slice_type |-> Unknown_t]

address_of(inner) == [kind |-> "AddressOf", inner |-> inner, typ |-> Unknown_t]

\* MemberAccessType::Name; MemberAccessType::Call is a call.
field(name) == [kind |-> "Name", name |-> name, index |-> 0]

member_access(left, right) ==
    [kind |-> "MemberAccess", left |-> left, right |-> right, typ |-> Unknown_t]

\* The patterns of a match case.
empty_array_pattern == [kind |-> "EmptyArray"]

array_pattern(head, tail) == [kind |-> "Array", head |-> head, tail |-> tail]

name_pattern(name) == [kind |-> "Name", nr |-> name_ref(name)]

literal_pattern(lit) == [kind |-> "Literal", lit |-> lit]

struct_pattern(name, bindings) ==
    [kind |-> "Struct", name |-> name, bindings |-> bindings, types |-> <<>>, typ |-> Unknown_t]

any_pattern == [kind |-> "Any"]

nil_pattern == [kind |-> "Nil"]

optional_pattern(binding) == [kind |-> "Optional", binding |-> binding, inner_type |-> Unknown_t]

match_case(pattern, to_execute) == [pattern |-> pattern, to_execute |-> to_execute]

match_expr(target, cases) ==
    [kind |-> "Match", target |-> target, cases |-> cases, typ |-> Unknown_t]

\* let name = init, with BindingType::Name(name)
name_binding(name, init, mutable) ==
    [binding_type |-> [kind |-> "Name", name |-> name], init |-> init, mutable |-> mutable,
     typ |-> Unknown_t]

\* let {bindings} = init, with BindingType::Struct(pattern)
struct_binding(bindings, init) ==
    [binding_type |-> struct_pattern("", bindings), init |-> init, mutable |-> FALSE,
     typ |-> Unknown_t]

\* let bindings in expression
binding_expr(bs, e) ==
    [kind |-> "Binding", bindings |-> bs, expression |-> e, typ |-> Unknown_t]

\* let bindings, the bindings added to the scope around them.
bindings_expr(bs) == [kind |-> "Bindings", bindings |-> bs]

for_loop(loop_variable, iterable, body) ==
    [kind |-> "For", loop_variable |-> loop_variable, loop_variable_type |-> Unknown_t,
     iterable |-> iterable, body |-> body]

assign(left, right) == [kind |-> "Assign", left |-> left, right |-> right, typ |-> Unknown_t]

cast(inner, destination_type) ==
    [kind |-> "Cast", inner |-> inner, destination_type |-> destination_type]

\* on_false is the Option of the else branch: <<>> or <<e>>.
if_expr(condition, on_true, on_false) ==
    [kind |-> "If", condition |-> condition, on_true |-> on_true, on_false |-> on_false,
     typ |-> Unknown_t]

\* The type recorded on a node (Expression::get_type for the kinds that
\* carry one).
node_type(e) ==
    CASE e.kind \in {"UnaryOp", "BinaryOp", "NameRef", "Block", "Literal", "If", "AddressOf",
                     "MemberAccess", "Match", "Binding", "Assign"} -> e.typ
      [] e.kind \in {"Bindings", "For"} -> Void_t
      [] e.kind = "ArrayLiteral" -> e.array_type
      [] e.kind = "Call" -> e.return_type
      [] e.kind = "Lambda" -> e.sig.typ
      [] e.kind = "ArrayToSlice" -> e.slice_type
      [] e.kind = "ToOptional" -> e.optional_type
      [] e.kind = "Cast" -> e.destination_type
      [] e.kind = "Nil" -> Nil_t
      [] e.kind = "Void" -> Void_t

(***************************************************************************)
(* Results of a check: CompileResult<TypeCheckAction> together with the    *)
(* node and the context as the callee left them.                           *)
(***************************************************************************)
NoError == [kind |-> "None"]

type_error == [kind |-> "TypeError"]

unknown_name == [kind |-> "UnknownName"]

unknown_type(name, expected) == [kind |-> "UnknownType", name |-> name, expected |-> expected]

panic == [kind |-> "Panic"]

non_exhaustive == [kind |-> "NonExhaustiveMatch"]

\* TypeCheckAction::Valid(t)
valid(t, e, c) ==
    [ok |-> TRUE, typ |-> t, e |-> e, ctx |-> c, err |-> NoError, replace |-> FALSE]

\* TypeCheckAction::ReplaceBy(e)
replace_by(e, c) ==
    [ok |-> TRUE, typ |-> Unknown_t, e |-> e, ctx |-> c, err |-> NoError, replace |-> TRUE]

failed(err, e, c) ==
    [ok |-> FALSE, typ |-> Unknown_t, e |-> e, ctx |-> c, err |-> err, replace |-> FALSE]

(***************************************************************************)
(* Generic mapper and instantiator on types (genericmapper.rs and          *)
(* instantiategenerics.rs are not part of the sources; section 4.3 of the  *)
(* specification).  A substitution is a list of (name, typ) pairs.         *)
(***************************************************************************)
subst_has(subst, name) == \E i \in DOMAIN subst : subst[i].name = name

subst_get(subst, name) == subst[CHOOSE i \in DOMAIN subst : subst[i].name = name].typ

RECURSIVE make_concrete(_, _)
\* make_concrete: every Generic(name) of t replaced by subst[name]; a name
\* the substitution lacks stays generic.
make_concrete(subst, t) ==
    CASE t.k = "Generic" -> IF subst_has(subst, t.name) THEN subst_get(subst, t.name) ELSE t
      [] t.k \in {"Optional", "Array", "Slice", "Pointer"} ->
            [t EXCEPT !.e = make_concrete(subst, t.e)]
      [] t.k = "Func" ->
            [t EXCEPT !.args = [i \in DOMAIN t.args |-> make_concrete(subst, t.args[i])],
                      !.ret = make_concrete(subst, t.ret)]
      [] t.k = "Struct" ->
            [t EXCEPT !.members = [i \in DOMAIN t.members |->
                                    [t.members[i] EXCEPT !.typ = make_concrete(subst, @)]]]
      [] t.k = "Sum" ->
            [t EXCEPT !.cases = [i \in DOMAIN t.cases |->
                                  [t.cases[i] EXCEPT !.typ = make_concrete(subst, @)]]]
      [] OTHER -> t

RECURSIVE fill_in_generics(_, _, _)
RECURSIVE fill_in_generics_args(_, _, _, _)
\* fill_in_generics: the lockstep walk of the actual and the generic type;
\* a Generic(name) records name |-> actual, a name bound to another type is
\* a GenericMismatch.
fill_in_generics(actual, generic, subst) ==
    CASE ~is_generic(generic) -> [ok |-> TRUE, subst |-> subst]
      [] generic.k = "Generic" ->
            IF subst_has(subst, generic.name)
            THEN [ok |-> subst_get(subst, generic.name) = actual, subst |-> subst]
            ELSE [ok |-> TRUE, subst |-> Append(subst, [name |-> generic.name, typ |-> actual])]
      [] generic.k \in {"Optional", "Array", "Slice", "Pointer"} ->
            IF actual.k = generic.k THEN fill_in_generics(actual.e, generic.e, subst)
            ELSE [ok |-> FALSE, subst |-> subst]
      [] generic.k = "Func" ->
            IF actual.k = "Func" /\ Len(actual.args) = Len(generic.args)
            THEN LET r == fill_in_generics_args(actual.args, generic.args, subst, 1)
                 IN IF r.ok THEN fill_in_generics(actual.ret, generic.ret, r.subst) ELSE r
            ELSE [ok |-> FALSE, subst |-> subst]
      [] OTHER -> [ok |-> FALSE, subst |-> subst]

fill_in_generics_args(actuals, generics, subst, i) ==
    IF i > Len(generics) THEN [ok |-> TRUE, subst |-> subst]
    ELSE LET r == fill_in_generics(actuals[i], generics[i], subst)
         IN IF r.ok THEN fill_in_generics_args(actuals, generics, r.subst, i + 1) ELSE r

(***************************************************************************)
(* Conversions (Type::convert, section 6 of the specification): T lifts to *)
(* Optional(T) through a ToOptional node, Array(T,n) to Slice(T) through   *)
(* an ArrayToSlice node; there is no other implicit conversion.            *)
(***************************************************************************)
can_convert(dst, src) ==
    \/ dst.k = "Optional" /\ dst.e = src /\ src # Nil_t
    \/ dst.k = "Slice" /\ src.k = "Array" /\ dst.e = src.e

\* Type::is_convertible(self -> dst).
is_convertible(src, dst) == can_convert(dst, src)

convert(dst, src, expr) ==
    IF dst.k = "Optional" THEN to_optional(expr, dst) ELSE array_to_slice(expr)

(***************************************************************************)
(* The expression checker.  A function of typecheck.rs that goes on after  *)
(* a call is split at the call: the operator that goes on takes the        *)
(* call's result as a parameter (handed over by after).                    *)
(***************************************************************************)
RECURSIVE type_check_expression(_, _, _)
RECURSIVE convert_type(_, _, _, _)
RECURSIVE type_check_with_conversion(_, _, _)
RECURSIVE array_literal_elements(_, _, _, _)
RECURSIVE resolve_generic_args_in_call(_, _, _)
RECURSIVE resolve_generic_args_pass(_, _, _, _, _)
RECURSIVE convert_call_args(_, _, _, _, _)
RECURSIVE block_expressions(_, _, _, _)

\* convert_type after the check of the conversion node: the assert_eq.
converted(dst_type, r) ==
    IF ~r.ok THEN r
    ELSE IF r.typ # dst_type THEN failed(panic, r.e, r.ctx)
    ELSE r

convert_type(c, dst_type, src_type, expr) ==
    IF dst_type = src_type THEN valid(dst_type, expr, c)
    ELSE IF can_convert(dst_type, src_type)
    THEN after(type_check_expression(c, convert(dst_type, src_type, expr), NoHint),
               LAMBDA r : converted(dst_type, r))
    ELSE failed(type_error, expr, c)

\* type_check_unary_op after the check of the operand.
unary_op_checked(u, r) ==
    IF ~r.ok THEN failed(r.err, [u EXCEPT !.expression = r.e], r.ctx)
    ELSE IF is_generic(r.typ) THEN valid(r.typ, [u EXCEPT !.expression = r.e, !.typ = r.typ], r.ctx)
    ELSE CASE u.operator = "Sub" ->
                 IF ~is_numeric(r.typ) THEN failed(type_error, [u EXCEPT !.expression = r.e], r.ctx)
                 ELSE valid(r.typ, [u EXCEPT !.expression = r.e, !.typ = r.typ], r.ctx)
           [] u.operator = "Not" ->
                 IF ~is_bool(r.typ) THEN failed(type_error, [u EXCEPT !.expression = r.e], r.ctx)
                 ELSE valid(Bool_t, [u EXCEPT !.expression = r.e, !.typ = Bool_t], r.ctx)
           [] OTHER -> failed(type_error, [u EXCEPT !.expression = r.e], r.ctx)

type_check_unary_op(c, u) ==
    after(type_check_expression(c, u.expression, NoHint), LAMBDA r : unary_op_checked(u, r))

\* type_check_with_conversion after the check of the expression.
with_conversion_checked(expected_type, r) ==
    IF ~r.ok THEN r ELSE convert_type(r.ctx, expected_type, r.typ, r.e)

type_check_with_conversion(c, e, expected_type) ==
    after(type_check_expression(c, e, NoHint), LAMBDA r : with_conversion_checked(expected_type, r))

\* basic_bin_op_checks: the operands have one type, which supports the operator.
basic_bin_op_checks(operator, left_type, right_type) ==
    left_type = right_type /\ is_operator_supported(left_type, operator)

\* The boolean rule of && and ||, the right operand converted.
bool_right_converted(b, r) ==
    IF ~r.ok THEN failed(r.err, [b EXCEPT !.right = r.e], r.ctx)
    ELSE valid(Bool_t, [b EXCEPT !.right = r.e, !.typ = Bool_t], r.ctx)

\* The boolean rule of && and ||, the left operand converted.
bool_left_converted(b, l) ==
    IF ~l.ok THEN failed(l.err, [b EXCEPT !.left = l.e], l.ctx)
    ELSE after(type_check_with_conversion(l.ctx, b.right, Bool_t),
               LAMBDA r : bool_right_converted([b EXCEPT !.left = l.e], r))

\* The boolean rule shared by && and ||: both operands converted to Bool.
bool_operands(c, b) ==
    after(type_check_with_conversion(c, b.left, Bool_t), LAMBDA l : bool_left_converted(b, l))

\* An || that is nil-coalescing with the optional on either side.
binary_or_symmetric(c, b, left_type, right_type) ==
    IF is_optional_of(left_type, right_type) \/ is_optional_of(right_type, left_type)
    THEN valid(right_type, [b EXCEPT !.typ = right_type], c)
    ELSE bool_operands(c, b)

\* Operator::Or of type_check_binary_op, the operands checked.
binary_or(c, b, left_type, right_type) ==
    IF is_optional_of(left_type, right_type)
    THEN valid(right_type, [b EXCEPT !.typ = right_type], c)
    ELSE bool_operands(c, b)

\* Operator::Equals | Operator::NotEquals of type_check_binary_op.
binary_equals(c, b, left_type, right_type) ==
    IF left_type # Nil_t /\ right_type # Nil_t
          /\ ~basic_bin_op_checks(b.operator, left_type, right_type)
    THEN failed(type_error, b, c)
    ELSE valid(Bool_t, [b EXCEPT !.typ = Bool_t], c)

\* The operands of a binary operation with a generic type: the type of the
\* left operand is returned and the node's typ is left as it was.
binary_generic(c, b, left_type) == valid(left_type, b, c)

\* type_check_binary_op after the checks of the two operands.
binary_op_checked(c, b, left_type, right_type) ==
    IF is_generic(left_type) \/ is_generic(right_type) THEN binary_generic(c, b, left_type)
    ELSE CASE b.operator \in {"Add", "Sub", "Mul", "Div", "Mod"} ->
                 IF ~basic_bin_op_checks(b.operator, left_type, right_type)
                 THEN failed(type_error, b, c)
                 ELSE valid(left_type, [b EXCEPT !.typ = right_type], c)
           [] b.operator \in {"LessThan", "GreaterThan", "LessThanEquals", "GreaterThanEquals"} ->
                 IF ~basic_bin_op_checks(b.operator, left_type, right_type)
                 THEN failed(type_error, b, c)
                 ELSE valid(Bool_t, [b EXCEPT !.typ = Bool_t], c)
           [] b.operator = "And" -> bool_operands(c, b)
           [] b.operator = "Or" -> binary_or(c, b, left_type, right_type)
           [] b.operator \in {"Equals", "NotEquals"} -> binary_equals(c, b, left_type, right_type)
           [] OTHER -> failed(type_error, b, c)

\* type_check_binary_op after the check of the right operand.
binary_right_checked(b, left_type, r) ==
    IF ~r.ok THEN failed(r.err, [b EXCEPT !.right = r.e], r.ctx)
    ELSE binary_op_checked(r.ctx, [b EXCEPT !.right = r.e], left_type, r.typ)

\* type_check_binary_op after the check of the left operand.
binary_left_checked(b, l) ==
    IF ~l.ok THEN failed(l.err, [b EXCEPT !.left = l.e], l.ctx)
    ELSE after(type_check_expression(l.ctx, b.right, NoHint),
               LAMBDA r : binary_right_checked([b EXCEPT !.left = l.e], l.typ, r))

type_check_binary_op(c, b) ==
    after(type_check_expression(c, b.left, NoHint), LAMBDA l : binary_left_checked(b, l))

\* The body of the loop of type_check_array_literal after the check of
\* element i: Unknown stands for "no element type yet".
array_element_checked(a, i, array_element_type, r) ==
    IF ~r.ok THEN failed(r.err, [a EXCEPT !.elements[i] = r.e], r.ctx)
    ELSE IF array_element_type = Unknown_t
    THEN array_literal_elements(r.ctx, [a EXCEPT !.elements[i] = r.e], i + 1, r.typ)
    ELSE IF array_element_type # r.typ
    THEN failed(type_error, [a EXCEPT !.elements[i] = r.e], r.ctx)
    ELSE array_literal_elements(r.ctx, [a EXCEPT !.elements[i] = r.e], i + 1, array_element_type)

\* The loop over the elements of a non-empty literal.
array_literal_elements(c, a, i, array_element_type) ==
    IF i > Len(a.elements) THEN valid(array_element_type, a, c)
    ELSE after(type_check_expression(c, a.elements[i], NoHint),
               LAMBDA r : array_element_checked(a, i, array_element_type, r))

\* The empty literal of type_check_array_literal.
empty_array_literal(c, a) ==
    valid(array_type(Int_t, 0), [a EXCEPT !.array_type = array_type(Int_t, 0)], c)

\* type_check_array_literal after the loop: r.typ is the element type.
array_elements_checked(r, at) ==
    IF ~r.ok THEN r
    ELSE IF r.e.array_type = Unknown_t THEN valid(at, [r.e EXCEPT !.array_type = at], r.ctx)
    ELSE IF r.e.array_type # at THEN failed(type_error, r.e, r.ctx)
    ELSE valid(r.e.array_type, r.e, r.ctx)

\* The non-empty literal of type_check_array_literal.
array_literal_typed(r) == array_elements_checked(r, array_type(r.typ, Len(r.e.elements)))

type_check_array_literal(c, a) ==
    IF Len(a.elements) = 0 THEN empty_array_literal(c, a)
    ELSE after(array_literal_elements(c, a, 1, Unknown_t), LAMBDA r : array_literal_typed(r))

RECURSIVE is_instantiation_of(_, _)
RECURSIVE all_instantiation_of(_, _, _)
\* The zip(...).all(...) of is_instantiation_of: the pairs up to the shorter
\* of the two lists.
all_instantiation_of(as, bs, i) ==
    IF i > Len(as) \/ i > Len(bs) THEN TRUE
    ELSE is_instantiation_of(as[i], bs[i]) /\ all_instantiation_of(as, bs, i + 1)

is_instantiation_of(concrete_type, generic_type_) ==
    IF ~is_generic(generic_type_) THEN concrete_type = generic_type_
    ELSE CASE concrete_type.k = "Array" /\ generic_type_.k = "Array" ->
                 is_instantiation_of(concrete_type.e, generic_type_.e)
           [] generic_type_.k = "Generic" -> TRUE
           [] concrete_type.k = "Struct" /\ generic_type_.k = "Struct" ->
                 /\ Len(concrete_type.members) = Len(generic_type_.members)
                 /\ all_instantiation_of([i \in DOMAIN concrete_type.members |-> concrete_type.members[i].typ],
                                         [i \in DOMAIN generic_type_.members |-> generic_type_.members[i].typ], 1)
           [] concrete_type.k = "Func" /\ generic_type_.k = "Func" ->
                 /\ is_instantiation_of(concrete_type.ret, generic_type_.ret)
                 /\ all_instantiation_of(concrete_type.args, generic_type_.args, 1)
           [] concrete_type.k = "Sum" /\ generic_type_.k = "Sum" ->
                 all_instantiation_of([i \in DOMAIN concrete_type.cases |-> concrete_type.cases[i].typ],
                                      [i \in DOMAIN generic_type_.cases |-> generic_type_.cases[i].typ], 1)
           [] OTHER -> FALSE

\* The name `_` of type_check_name: Unknown is returned, the node untouched.
name_underscore(c, nr) == valid(Unknown_t, nr, c)

\* type_check_name after the name resolved: nr carries the full name.
name_resolved(c, nr, rtyp, type_hint) ==
    IF type_hint = NoHint THEN valid(rtyp, [nr EXCEPT !.typ = rtyp], c)
    ELSE IF rtyp = Unknown_t THEN failed(unknown_type(nr.name, type_hint), nr, c)
    ELSE IF rtyp = type_hint THEN valid(rtyp, [nr EXCEPT !.typ = rtyp], c)
    ELSE IF ~is_generic(rtyp) /\ ~is_generic(type_hint) /\ ~is_convertible(rtyp, type_hint)
    THEN failed(type_error, nr, c)
    ELSE IF is_generic(rtyp) /\ ~is_generic(type_hint)
    THEN IF ~is_instantiation_of(type_hint, rtyp) THEN failed(type_error, nr, c)
         ELSE valid(type_hint, [nr EXCEPT !.typ = type_hint], c)
    ELSE valid(rtyp, [nr EXCEPT !.typ = rtyp], c)

\* type_check_name after ctx.resolve.
name_looked_up(c, nr, resolved, type_hint) ==
    IF ~resolved.found THEN failed(unknown_name, nr, c)
    ELSE name_resolved(c, [nr EXCEPT !.name = resolved.full_name], resolved.typ, type_hint)

type_check_name(c, nr, type_hint) ==
    IF nr.name = "_" THEN name_underscore(c, nr)
    ELSE IF ~is_unknown(nr.typ) /\ ~is_generic(nr.typ) THEN valid(nr.typ, nr, c)
    ELSE after(resolve(c, nr.name), LAMBDA resolved : name_looked_up(c, nr, resolved, type_hint))

\* The result of resolve_generic_args_in_call: the argument types, with the
\* call and the context as the function left them; counts lists
\* c.generic_args.len() at the exit test of every iteration of the loop.
args_result(ok, err, cl, c, arg_types) ==
    [ok |-> ok, err |-> err, e |-> cl, ctx |-> c, arg_types |-> arg_types, counts |-> <<>>]

\* The body of the loop of resolve_generic_args_in_call after fill_in_generics.
generic_arg_filled(c, ft, cl, i, arg_types, arg_type, f) ==
    IF ~f.ok THEN args_result(FALSE, type_error, cl, c, arg_types)
    ELSE resolve_generic_args_pass(c, ft, [cl EXCEPT !.generic_args = f.subst], i + 1,
                                   Append(arg_types, arg_type))

\* The body of the loop of resolve_generic_args_in_call after the check of
\* argument i against the expected type.
generic_arg_checked(ft, cl, i, arg_types, expected_arg_type, r) ==
    IF ~r.ok THEN args_result(FALSE, r.err, [cl EXCEPT !.args[i] = r.e], r.ctx, arg_types)
    ELSE IF is_generic(expected_arg_type)
    THEN generic_arg_filled(r.ctx, ft, [cl EXCEPT !.args[i] = r.e], i, arg_types,
                            make_concrete(cl.generic_args, r.typ),
                            fill_in_generics(make_concrete(cl.generic_args, r.typ),
                                             expected_arg_type, cl.generic_args))
    ELSE resolve_generic_args_pass(r.ctx, ft, [cl EXCEPT !.args[i] = r.e], i + 1,
                                   Append(arg_types, make_concrete(cl.generic_args, r.typ)))

\* One pass of the loop of resolve_generic_args_in_call over the arguments.
resolve_generic_args_pass(c, ft, cl, i, arg_types) ==
    IF i > Len(cl.args) \/ i > Len(ft.args) THEN args_result(TRUE, NoError, cl, c, arg_types)
    ELSE after(type_check_expression(c, cl.args[i], make_concrete(cl.generic_args, ft.args[i])),
               LAMBDA r : generic_arg_checked(ft, cl, i, arg_types,
                                              make_concrete(cl.generic_args, ft.args[i]), r))

\* A loop that is left after its first iteration.
generic_args_pass_done_once(ft, cnt, r) ==
    IF ~r.ok THEN r
    ELSE [r EXCEPT !.counts = <<Len(r.e.generic_args)>>]

\* The exit test of the loop of resolve_generic_args_in_call.
generic_args_pass_done(ft, cnt, r) ==
    IF ~r.ok THEN r
    ELSE IF Len(r.e.generic_args) = cnt THEN [r EXCEPT !.counts = <<cnt>>]
    ELSE after(resolve_generic_args_in_call(r.ctx, ft, r.e), LAMBDA n :
           [n EXCEPT !.counts = <<Len(r.e.generic_args)>> \o @])

resolve_generic_args_in_call(c, ft, cl) ==
    after(resolve_generic_args_pass(c, ft, cl, 1, <<>>),
          LAMBDA r : generic_args_pass_done(ft, Len(cl.generic_args), r))

\* The body of the conversion loop of type_check_call after convert_type.
call_arg_converted(ft, cl, arg_types, i, r) ==
    IF ~r.ok THEN failed(r.err, [cl EXCEPT !.args[i] = r.e], r.ctx)
    ELSE convert_call_args(r.ctx, ft, [cl EXCEPT !.args[i] = r.e], arg_types, i + 1)

\* The loop of type_check_call that converts each argument to its parameter type.
convert_call_args(c, ft, cl, arg_types, i) ==
    IF i > Len(cl.args) THEN valid(Unknown_t, cl, c)
    ELSE after(convert_type(c, make_concrete(cl.generic_args, ft.args[i]), arg_types[i], cl.args[i]),
               LAMBDA r : call_arg_converted(ft, cl, arg_types, i, r))

\* The end of type_check_call: the return type recorded and returned.
call_return(c, cl, ret) == valid(ret, [cl EXCEPT !.return_type = ret], c)

\* type_check_call after the conversion loop.
call_args_converted(ft, v) ==
    IF ~v.ok THEN v
    ELSE call_return(v.ctx, v.e,
                     IF is_generic(ft.ret) THEN make_concrete(v.e.generic_args, ft.ret) ELSE ft.ret)

\* type_check_call after resolve_generic_args_in_call.
call_args_resolved(ft, g) ==
    IF ~g.ok THEN failed(g.err, g.e, g.ctx)
    ELSE after(convert_call_args(g.ctx, ft, g.e, g.arg_types, 1), LAMBDA v : call_args_converted(ft, v))

\* call_resolved, checking the first argument before the count is tested.
call_resolved_counting_late(c, cl, ft) ==
    IF ft.k # "Func" THEN failed(type_error, cl, c)
    ELSE IF Len(ft.args) # Len(cl.args)
    THEN IF Len(cl.args) = 0 THEN failed(type_error, cl, c)
         ELSE after(type_check_expression(c, cl.args[1], NoHint), LAMBDA r :
                failed(IF r.ok THEN type_error ELSE r.err, [cl EXCEPT !.args[1] = r.e], r.ctx))
    ELSE after(resolve_generic_args_in_call(c, ft, cl), LAMBDA g : call_args_resolved(ft, g))

\* type_check_call after the callee resolved: cl carries the full name.
call_resolved(c, cl, ft) ==
    IF ft.k # "Func" THEN failed(type_error, cl, c)
    ELSE IF Len(ft.args) # Len(cl.args) THEN failed(type_error, cl, c)
    ELSE after(resolve_generic_args_in_call(c, ft, cl), LAMBDA g : call_args_resolved(ft, g))

\* type_check_call without the rewrite of the callee name.
call_looked_up_unqualified(c, cl, resolved) ==
    IF ~resolved.found THEN failed(unknown_name, cl, c)
    ELSE call_resolved(c, cl, resolved.typ)

\* type_check_call after ctx.resolve.
call_looked_up(c, cl, resolved) ==
    IF ~resolved.found THEN failed(unknown_name, cl, c)
    ELSE call_resolved(c, [cl EXCEPT !.callee.name = resolved.full_name], resolved.typ)

type_check_call(c, cl) ==
    after(resolve(c, cl.callee.name), LAMBDA resolved : call_looked_up(c, cl, resolved))

RECURSIVE add_args(_, _, _)
\* add_args after the add of argument i.
arg_added(args, i, a) == IF ~a.ok THEN a ELSE add_args(a.ctx, args, i + 1)

\* The loop that declares the arguments of a signature in the top frame.
add_args(c, args, i) ==
    IF i > Len(args) THEN [ok |-> TRUE, ctx |-> c]
    ELSE after(add(c, args[i].name, args[i].typ, args[i].mutable), LAMBDA a : arg_added(args, i, a))

\* Lambda::is_generic, Lambda::set_return_type and Lambda::apply_type
\* (ast/lambda.rs is not part of the sources).
lambda_is_generic(m) == is_generic(m.sig.typ)

set_return_type(m, t) ==
    [m EXCEPT !.sig.return_type = t,
              !.sig.typ = func_type([i \in DOMAIN m.sig.args |-> m.sig.args[i].typ], t)]

apply_type_ok(m, t) == t.k = "Func" /\ Len(t.args) = Len(m.sig.args)

apply_type(m, t) ==
    [m EXCEPT !.sig.args = [i \in DOMAIN m.sig.args |-> [m.sig.args[i] EXCEPT !.typ = t.args[i]]],
              !.sig.return_type = t.ret,
              !.sig.typ = t]

\* type_check_lambda_body after the check of the body.
lambda_body_checked(m, r) ==
    IF ~r.ok THEN failed(r.err, [m EXCEPT !.expr = r.e], r.ctx)
    ELSE valid(set_return_type(m, r.typ).sig.typ, set_return_type([m EXCEPT !.expr = r.e], r.typ),
               pop_stack(r.ctx))

\* type_check_lambda_body after the arguments were declared.
lambda_args_added(m, a) ==
    IF ~a.ok THEN failed(type_error, m, a.ctx)
    ELSE after(type_check_expression(a.ctx, m.expr, NoHint), LAMBDA r : lambda_body_checked(m, r))

type_check_lambda_body(c, m) ==
    after(add_args(push_stack(c, FALSE),
                   [i \in DOMAIN m.sig.args |-> [m.sig.args[i] EXCEPT !.mutable = FALSE]], 1),
          LAMBDA a : lambda_args_added(m, a))

\* The generated name of a lambda checked with a hint: "lambda-" and a
\* fresh UUID.
lambda_name(c) == "lambda-" \o ToString(c.uuid)

\* type_check_lambda with a hint, after the check of the body.
lambda_hint_checked(type_hint, r) ==
    IF ~r.ok THEN r
    ELSE IF r.typ # type_hint THEN failed(type_error, r.e, r.ctx)
    ELSE r

\* type_check_lambda with a hint, the lambda named.
lambda_hinted(c, m, type_hint) ==
    IF ~apply_type_ok(m, type_hint) THEN failed(type_error, m, c)
    ELSE after(type_check_lambda_body(c, apply_type(m, type_hint)),
               LAMBDA r : lambda_hint_checked(type_hint, r))

type_check_lambda(c, m, type_hint) ==
    IF type_hint # NoHint
    THEN lambda_hinted([c EXCEPT !.uuid = @ + 1], [m EXCEPT !.sig.name = lambda_name(c)], type_hint)
    ELSE IF lambda_is_generic(m) THEN valid(Unknown_t, m, c)
    ELSE type_check_lambda_body(c, m)

\* The body of the loop of type_check_block after the check of expression i.
block_expression_checked(b, i, type_hint, r) ==
    IF ~r.ok THEN failed(r.err, [b EXCEPT !.expressions[i] = r.e], r.ctx)
    ELSE block_expressions(r.ctx,
                           IF i = Len(b.expressions)
                           THEN [b EXCEPT !.expressions[i] = r.e, !.typ = r.typ]
                           ELSE [b EXCEPT !.expressions[i] = r.e],
                           i + 1, type_hint)

\* The loop of type_check_block over the expressions.
block_expressions(c, b, i, type_hint) ==
    IF i > Len(b.expressions) THEN valid(b.typ, b, c)
    ELSE after(type_check_expression(c, b.expressions[i], type_hint),
               LAMBDA r : block_expression_checked(b, i, type_hint, r))

\* type_check_block after the loop.
block_done(r) == IF ~r.ok THEN r ELSE valid(r.e.typ, r.e, pop_stack(r.ctx))

type_check_block(c, b, type_hint) ==
    after(block_expressions(push_stack(c, FALSE), b, 1, type_hint), LAMBDA r : block_done(r))

\* type_check_array_to_slice after the check of the inner expression.
array_to_slice_checked(ats, r) ==
    IF ~r.ok THEN failed(r.err, [ats EXCEPT !.inner = r.e], r.ctx)
    ELSE IF r.typ.k = "Array"
    THEN valid(slice_type(r.typ.e), [ats EXCEPT !.inner = r.e, !.slice_type = slice_type(r.typ.e)], r.ctx)
    ELSE failed(type_error, [ats EXCEPT !.inner = r.e], r.ctx)

type_check_array_to_slice(c, ats, type_hint) ==
    after(type_check_expression(c, ats.inner, type_hint), LAMBDA r : array_to_slice_checked(ats, r))

\* Expression::ToOptional of type_check_expression after the check of the
\* inner expression.
to_optional_checked(t, r) ==
    IF ~r.ok THEN failed(r.err, [t EXCEPT !.inner = r.e], r.ctx)
    ELSE valid(t.optional_type, [t EXCEPT !.inner = r.e], r.ctx)

\* Expression::ToOptional of type_check_expression.
type_check_to_optional(c, t) ==
    after(type_check_expression(c, t.inner, NoHint), LAMBDA r : to_optional_checked(t, r))

\* if_lifted, wrapping the nil branch as well.
if_lifted_wraps_nil(n, on_true_side, opt, v) ==
    IF ~v.ok
    THEN failed(v.err, IF on_true_side THEN [n EXCEPT !.on_true = v.e]
                       ELSE [n EXCEPT !.on_false = <<v.e>>], v.ctx)
    ELSE valid(opt, IF on_true_side
                    THEN [n EXCEPT !.on_true = v.e, !.typ = opt,
                                   !.on_false = <<to_optional(n.on_false[1], opt)>>]
                    ELSE [n EXCEPT !.on_false = <<v.e>>, !.typ = opt,
                                   !.on_true = to_optional(n.on_true, opt)], v.ctx)

\* type_check_if after the conversion of the branch that is not nil: the
\* Optional type is recorded and returned.
if_lifted(n, on_true_side, opt, v) ==
    IF ~v.ok
    THEN failed(v.err, IF on_true_side THEN [n EXCEPT !.on_true = v.e]
                       ELSE [n EXCEPT !.on_false = <<v.e>>], v.ctx)
    ELSE valid(opt, IF on_true_side THEN [n EXCEPT !.on_true = v.e, !.typ = opt]
                    ELSE [n EXCEPT !.on_false = <<v.e>>, !.typ = opt], v.ctx)

\* if_branches_differ, testing for a nil branch before the missing else.
if_branches_differ_lifting_first(c, n, on_true_type, on_false_type) ==
    IF on_true_type = Nil_t
    THEN IF n.on_false = <<>>
         THEN valid(optional_type(on_false_type), [n EXCEPT !.typ = optional_type(on_false_type)], c)
         ELSE after(type_check_with_conversion(c, n.on_false[1], optional_type(on_false_type)),
                    LAMBDA v : if_lifted(n, FALSE, optional_type(on_false_type), v))
    ELSE IF on_false_type = Nil_t
    THEN after(type_check_with_conversion(c, n.on_true, optional_type(on_true_type)),
               LAMBDA v : if_lifted(n, TRUE, optional_type(on_true_type), v))
    ELSE failed(type_error, n, c)

\* type_check_if when the types of the branches differ.
if_branches_differ(c, n, on_true_type, on_false_type) ==
    IF n.on_false = <<>> THEN failed(type_error, n, c)
    ELSE IF on_true_type = Nil_t
    THEN after(type_check_with_conversion(c, n.on_false[1], optional_type(on_false_type)),
               LAMBDA v : if_lifted(n, FALSE, optional_type(on_false_type), v))
    ELSE IF on_false_type = Nil_t
    THEN after(type_check_with_conversion(c, n.on_true, optional_type(on_true_type)),
               LAMBDA v : if_lifted(n, TRUE, optional_type(on_true_type), v))
    ELSE failed(type_error, n, c)

type_check_if(c, i) ==
    after(type_check_with_conversion(c, i.condition, Bool_t), LAMBDA rc :
      IF ~rc.ok THEN failed(rc.err, [i EXCEPT !.condition = rc.e], rc.ctx)
      ELSE after(type_check_expression(rc.ctx, i.on_true, NoHint), LAMBDA rt :
        IF ~rt.ok THEN failed(rt.err, [i EXCEPT !.condition = rc.e, !.on_true = rt.e], rt.ctx)
        ELSE after(IF i.on_false = <<>> THEN valid(Void_t, void_expr, rt.ctx)
                   ELSE type_check_expression(rt.ctx, i.on_false[1], NoHint), LAMBDA rf :
          IF ~rf.ok
          THEN failed(rf.err, [i EXCEPT !.condition = rc.e, !.on_true = rt.e, !.on_false = <<rf.e>>],
                      rf.ctx)
          ELSE IF rt.typ # rf.typ
          THEN if_branches_differ(rf.ctx,
                                  [i EXCEPT !.condition = rc.e, !.on_true = rt.e,
                                            !.on_false = IF i.on_false = <<>> THEN <<>> ELSE <<rf.e>>],
                                  rt.typ, rf.typ)
          ELSE valid(rf.typ,
                     [i EXCEPT !.condition = rc.e, !.on_true = rt.e, !.typ = rt.typ,
                               !.on_false = IF i.on_false = <<>> THEN <<>> ELSE <<rf.e>>],
                     rf.ctx))))

type_check_address_of(c, a, type_hint) ==
    after(type_check_expression(c, a.inner, type_hint), LAMBDA r :
      IF ~r.ok THEN failed(r.err, [a EXCEPT !.inner = r.e], r.ctx)
      ELSE valid(ptr_type(r.typ), [a EXCEPT !.inner = r.e, !.typ = ptr_type(r.typ)], r.ctx))

\* The index (from 0) and the type of the member of that name.
find_member_type(members, member_name) ==
    IF \E i \in DOMAIN members : members[i].name = member_name
    THEN after(CHOOSE i \in DOMAIN members :
                 /\ members[i].name = member_name
                 /\ \A j \in 1..(i - 1) : members[j].name # member_name,
               LAMBDA i : [found |-> TRUE, index |-> i - 1, typ |-> members[i].typ])
    ELSE [found |-> FALSE, index |-> 0, typ |-> Unknown_t]

\* member_call_to_call, taking the address of every receiver.
member_call_to_call_by_address(left, cl) ==
    [call(cl.callee.name, <<address_of(left)>> \o cl.args) EXCEPT !.callee = cl.callee]

member_call_to_call(left, cl) ==
    [call(cl.callee.name,
          <<IF node_type(left).k = "Pointer" THEN left ELSE address_of(left)>> \o cl.args)
     EXCEPT !.callee = cl.callee]

\* The generic type is GenericType::Any(name): the name of an interface.
type_check_generic_member_call(c, cl, gt) ==
    after(resolve(c, gt.name), LAMBDA interface :
      IF ~interface.found THEN failed(type_error, cl, c)
      ELSE IF /\ interface.typ.k = "Interface"
              /\ \E i \in DOMAIN interface.typ.functions :
                     interface.typ.functions[i].name = cl.callee.name
      THEN after(CHOOSE i \in DOMAIN interface.typ.functions :
                   /\ interface.typ.functions[i].name = cl.callee.name
                   /\ \A j \in 1..(i - 1) : interface.typ.functions[j].name # cl.callee.name,
                 LAMBDA i : call_return(c, cl, interface.typ.functions[i].return_type))
      ELSE failed(type_error, cl, c))

\* type_check_member_access after the check of the left side l, with the
\* type of the left side behind one level of Pointer.
member_access_checked(n, l, left_type_ref) ==
    CASE n.right.kind = "Name" /\ left_type_ref.k = "Struct" ->
            after(find_member_type(left_type_ref.members, n.right.name), LAMBDA m :
              IF ~m.found THEN failed(unknown_name, n, l.ctx)
              ELSE valid(m.typ, [n EXCEPT !.right.index = m.index, !.typ = m.typ], l.ctx))
      [] n.right.kind = "Name" /\ left_type_ref.k \in {"Array", "String"} ->
            after(get_property_type(l.typ, n.right.name), LAMBDA p :
              IF ~p.found THEN failed(type_error, n, l.ctx)
              ELSE valid(p.typ, [n EXCEPT !.right = p.right, !.typ = p.typ], l.ctx))
      [] n.right.kind = "Call" /\ left_type_ref.k \in {"Struct", "Sum"} ->
            replace_by(member_call_to_call(
                           n.left,
                           [n.right EXCEPT !.callee.name = left_type_ref.name \o "." \o @]),
                       l.ctx)
      [] n.right.kind = "Call" /\ left_type_ref.k = "Generic" ->
            after(type_check_generic_member_call(l.ctx, n.right, left_type_ref), LAMBDA g :
              IF ~g.ok THEN failed(g.err, n, g.ctx)
              ELSE valid(g.typ, [n EXCEPT !.right = g.e, !.typ = g.typ], g.ctx))
      [] OTHER -> failed(type_error, n, l.ctx)

type_check_member_access(c, sma) ==
    after(type_check_expression(c, sma.left, NoHint), LAMBDA l :
      IF ~l.ok THEN failed(l.err, [sma EXCEPT !.left = l.e], l.ctx)
      ELSE member_access_checked([sma EXCEPT !.left = l.e], l,
                                 IF l.typ.k = "Pointer" THEN l.typ.e ELSE l.typ))

(***************************************************************************)
(* check_match_is_exhaustive (matchchecker.rs is not part of the sources;  *)
(* section 4.5 of the specification): a sum or enum target needs every     *)
(* case or an Any, an optional target Nil and Optional or an Any, a        *)
(* sequence target EmptyArray and Array or an Any; every other target must *)
(* end with an Any.                                                        *)
(***************************************************************************)
check_match_is_exhaustive(m, target_type) ==
    LET kinds == {m.cases[i].pattern.kind : i \in DOMAIN m.cases}
        named == {m.cases[i].pattern.nr.name :
                     i \in {j \in DOMAIN m.cases : m.cases[j].pattern.kind = "Name"}}
                 \cup {m.cases[i].pattern.name :
                          i \in {j \in DOMAIN m.cases : m.cases[j].pattern.kind = "Struct"}}
    IN CASE "Any" \in kinds /\ target_type.k \in {"Sum", "Enum", "Optional", "Array", "Slice", "String"}
               -> TRUE
         [] target_type.k \in {"Sum", "Enum"} ->
               \A i \in DOMAIN target_type.cases :
                  {target_type.cases[i].name, "m::" \o target_type.cases[i].name} \cap named # {}
         [] target_type.k = "Optional" -> {"Nil", "Optional"} \subseteq kinds
         [] is_sequence(target_type) -> {"EmptyArray", "Array"} \subseteq kinds
         [] OTHER -> Len(m.cases) > 0 /\ m.cases[Len(m.cases)].pattern.kind = "Any"

type_check_struct_pattern(c, p) ==
    IF ~is_unknown(p.typ) THEN valid(p.typ, p, c)
    ELSE after(resolve(c, p.name), LAMBDA resolved :
      IF ~resolved.found THEN failed(unknown_name, p, c)
      ELSE after([p EXCEPT !.name = resolved.full_name], LAMBDA n :
        CASE resolved.typ.k = "Sum" ->
                after(index_of(resolved.typ, n.name), LAMBDA idx :
                  IF idx = 0 THEN failed(panic, n, c)
                  ELSE IF resolved.typ.cases[idx].typ.k # "Struct" THEN failed(type_error, n, c)
                  ELSE IF Len(resolved.typ.cases[idx].typ.members) # Len(n.bindings)
                  THEN failed(type_error, n, c)
                  ELSE valid(Unknown_t,
                             [n EXCEPT !.types = [i \in DOMAIN resolved.typ.cases[idx].typ.members |->
                                                    resolved.typ.cases[idx].typ.members[i].typ],
                                       !.typ = resolved.typ], c))
          [] resolved.typ.k = "Struct" ->
                valid(Unknown_t,
                      [n EXCEPT !.types = [i \in DOMAIN resolved.typ.members |->
                                             resolved.typ.members[i].typ],
                                !.typ = resolved.typ], c)
          [] OTHER -> failed(type_error, n, c)))

\* infer_case_type on the body of the case cs; scoped says that the case
\* pushed a frame, which is popped after the body checked.
infer_case_type(c, cs, return_type, scoped) ==
    after(type_check_expression(c, cs.to_execute, NoHint), LAMBDA r :
      IF ~r.ok THEN failed(r.err, [cs EXCEPT !.to_execute = r.e], r.ctx)
      ELSE IF return_type # Unknown_t /\ return_type # r.typ
      THEN failed(type_error, [cs EXCEPT !.to_execute = r.e], r.ctx)
      ELSE valid(r.typ, [cs EXCEPT !.to_execute = r.e],
                 IF scoped THEN pop_stack(r.ctx) ELSE r.ctx))

RECURSIVE add_pattern_bindings(_, _, _)
\* The bindings of a struct pattern, zipped with the types and added to
\* the top frame unless the binding is `_`.
add_pattern_bindings(c, p, i) ==
    IF i > Len(p.bindings) \/ i > Len(p.types) THEN [ok |-> TRUE, ctx |-> c]
    ELSE IF p.bindings[i] = "_" THEN add_pattern_bindings(c, p, i + 1)
    ELSE after(add(c, p.bindings[i], p.types[i], FALSE), LAMBDA a :
           IF ~a.ok THEN a ELSE add_pattern_bindings(a.ctx, p, i + 1))

\* Every case of a sum type taken for an empty one.
is_empty_sum_case_always(st, idx) == TRUE

\* case.typ == Type::Int: the case idx of the sum type carries no struct.
is_empty_sum_case(st, idx) == st.cases[idx].typ = Int_t

\* One turn of the loop of type_check_match up to the type of the case.
type_check_match_case(c, cs, target_type, return_type) ==
    CASE cs.pattern.kind = "EmptyArray" ->
            IF ~is_sequence(target_type) THEN failed(type_error, cs, c)
            ELSE infer_case_type(c, cs, return_type, FALSE)
      [] cs.pattern.kind = "Array" ->
            IF ~is_sequence(target_type) THEN failed(type_error, cs, c)
            ELSE after(add(push_stack(c, FALSE), cs.pattern.head,
                           get_element_type(target_type), FALSE), LAMBDA h :
              IF ~h.ok THEN failed(type_error, cs, h.ctx)
              ELSE after(add(h.ctx, cs.pattern.tail,
                             slice_type(get_element_type(target_type)), FALSE), LAMBDA t :
                IF ~t.ok THEN failed(type_error, cs, t.ctx)
                ELSE infer_case_type(t.ctx, cs, return_type, TRUE)))
      [] cs.pattern.kind = "Name" ->
            after(type_check_name(c, cs.pattern.nr, target_type), LAMBDA n :
              IF ~n.ok THEN failed(n.err, [cs EXCEPT !.pattern.nr = n.e], n.ctx)
              ELSE IF n.e.typ # target_type
              THEN failed(type_error, [cs EXCEPT !.pattern.nr = n.e], n.ctx)
              ELSE CASE n.e.typ.k = "Sum" ->
                          after(index_of(n.e.typ, n.e.name), LAMBDA idx :
                            IF idx = 0 THEN failed(panic, [cs EXCEPT !.pattern.nr = n.e], n.ctx)
                            ELSE IF is_empty_sum_case(n.e.typ, idx)
                            THEN infer_case_type(n.ctx, [cs EXCEPT !.pattern.nr = n.e],
                                                 return_type, FALSE)
                            ELSE failed(type_error, [cs EXCEPT !.pattern.nr = n.e], n.ctx))
                     [] n.e.typ.k = "Enum" ->
                          infer_case_type(n.ctx, [cs EXCEPT !.pattern.nr = n.e], return_type, FALSE)
                     [] OTHER -> failed(type_error, [cs EXCEPT !.pattern.nr = n.e], n.ctx))
      [] cs.pattern.kind = "Literal" /\ cs.pattern.lit.kind = "ArrayLiteral" ->
            after(type_check_array_literal(c, cs.pattern.lit), LAMBDA a :
              IF ~a.ok THEN failed(a.err, [cs EXCEPT !.pattern.lit = a.e], a.ctx)
              ELSE IF ~is_matchable(target_type, a.typ)
              THEN failed(type_error, [cs EXCEPT !.pattern.lit = a.e], a.ctx)
              ELSE infer_case_type(a.ctx, [cs EXCEPT !.pattern.lit = a.e], return_type, FALSE))
      [] cs.pattern.kind = "Literal" ->
            IF ~is_matchable(target_type, cs.pattern.lit.typ) THEN failed(type_error, cs, c)
            ELSE infer_case_type(c, cs, return_type, FALSE)
      [] cs.pattern.kind = "Struct" ->
            after(type_check_struct_pattern(c, cs.pattern), LAMBDA p :
              IF ~p.ok THEN failed(p.err, [cs EXCEPT !.pattern = p.e], p.ctx)
              ELSE IF p.e.typ # target_type
              THEN failed(type_error, [cs EXCEPT !.pattern = p.e], p.ctx)
              ELSE after(add_pattern_bindings(push_stack(p.ctx, FALSE), p.e, 1), LAMBDA b :
                IF ~b.ok THEN failed(type_error, [cs EXCEPT !.pattern = p.e], b.ctx)
                ELSE infer_case_type(b.ctx, [cs EXCEPT !.pattern = p.e], return_type, TRUE)))
      [] cs.pattern.kind = "Any" -> infer_case_type(c, cs, return_type, FALSE)
      [] cs.pattern.kind = "Nil" ->
            IF ~is_optional(target_type) THEN failed(type_error, cs, c)
            ELSE infer_case_type(c, cs, return_type, FALSE)
      [] cs.pattern.kind = "Optional" ->
            IF ~is_optional(target_type) THEN failed(type_error, cs, c)
            ELSE after([cs EXCEPT !.pattern.inner_type = get_element_type(target_type)], LAMBDA n :
              after(add(push_stack(c, FALSE), n.pattern.binding, n.pattern.inner_type, FALSE),
                    LAMBDA o :
                IF ~o.ok THEN failed(type_error, n, o.ctx)
                ELSE infer_case_type(o.ctx, n, return_type, TRUE)))

RECURSIVE type_check_match_cases(_, _, _, _, _)
\* The loop of type_check_match from case i on.
type_check_match_cases(c, m, i, target_type, return_type) ==
    IF i > Len(m.cases) THEN valid(return_type, m, c)
    ELSE after(type_check_match_case(c, m.cases[i], target_type, return_type), LAMBDA r :
      IF ~r.ok THEN failed(r.err, [m EXCEPT !.cases[i] = r.e], r.ctx)
      ELSE IF return_type = Unknown_t
      THEN type_check_match_cases(r.ctx, [m EXCEPT !.cases[i] = r.e], i + 1, target_type, r.typ)
      ELSE IF return_type # r.typ THEN failed(type_error, [m EXCEPT !.cases[i] = r.e], r.ctx)
      ELSE type_check_match_cases(r.ctx, [m EXCEPT !.cases[i] = r.e], i + 1, target_type,
                                  return_type))

\* type_check_match, testing exhaustiveness before the cases are checked.
type_check_match_exhaustive_first(c, m) ==
    after(type_check_expression(c, m.target, NoHint), LAMBDA t :
      IF ~t.ok THEN failed(t.err, [m EXCEPT !.target = t.e], t.ctx)
      ELSE IF ~check_match_is_exhaustive(m, t.typ)
      THEN failed(non_exhaustive, [m EXCEPT !.target = t.e], t.ctx)
      ELSE after(type_check_match_cases(t.ctx, [m EXCEPT !.target = t.e], 1, t.typ, Unknown_t),
                 LAMBDA r : IF ~r.ok THEN r ELSE valid(r.typ, [r.e EXCEPT !.typ = r.typ], r.ctx)))

type_check_match(c, m) ==
    after(type_check_expression(c, m.target, NoHint), LAMBDA t :
      IF ~t.ok THEN failed(t.err, [m EXCEPT !.target = t.e], t.ctx)
      ELSE after(type_check_match_cases(t.ctx, [m EXCEPT !.target = t.e], 1, t.typ, Unknown_t),
                 LAMBDA r :
        IF ~r.ok THEN r
        ELSE IF ~check_match_is_exhaustive([r.e EXCEPT !.typ = r.typ], t.typ)
        THEN failed(non_exhaustive, [r.e EXCEPT !.typ = r.typ], r.ctx)
        ELSE valid(r.typ, [r.e EXCEPT !.typ = r.typ], r.ctx)))

type_check_binding(c, b) ==
    after(type_check_expression(c, b.init, NoHint), LAMBDA r :
      IF ~r.ok THEN failed(r.err, [b EXCEPT !.init = r.e], r.ctx)
      ELSE IF b.binding_type.kind = "Name"
      THEN after(add(r.ctx, b.binding_type.name, r.typ, b.mutable), LAMBDA a :
             IF ~a.ok THEN failed(type_error, [b EXCEPT !.init = r.e, !.typ = r.typ], a.ctx)
             ELSE valid(r.typ, [b EXCEPT !.init = r.e, !.typ = r.typ], a.ctx))
      ELSE after([b EXCEPT !.init = r.e, !.typ = r.typ, !.binding_type.typ = r.typ], LAMBDA n :
             IF r.typ.k # "Struct" THEN failed(type_error, n, r.ctx)
             ELSE IF Len(r.typ.members) # Len(n.binding_type.bindings)
             THEN failed(type_error, n, r.ctx)
             ELSE after([n EXCEPT !.binding_type.types =
                              [i \in DOMAIN r.typ.members |-> r.typ.members[i].typ]], LAMBDA s :
                    after(add_pattern_bindings(r.ctx, s.binding_type, 1), LAMBDA a :
                      IF ~a.ok THEN failed(type_error, s, a.ctx) ELSE valid(r.typ, s, a.ctx)))))

RECURSIVE type_check_bindings(_, _, _)
\* The loop over the bindings of l, from binding i on.
type_check_bindings(c, l, i) ==
    IF i > Len(l.bindings) THEN valid(Void_t, l, c)
    ELSE after(type_check_binding(c, l.bindings[i]), LAMBDA r :
           IF ~r.ok THEN failed(r.err, [l EXCEPT !.bindings[i] = r.e], r.ctx)
           ELSE type_check_bindings(r.ctx, [l EXCEPT !.bindings[i] = r.e], i + 1))

\* update_binding_type, checking the initializer again without the hint.
update_binding_type_unhinted(c, l, name, expected_type) ==
    IF ~\E k \in DOMAIN l.bindings : l.bindings[k].binding_type = [kind |-> "Name", name |-> name]
    THEN failed(type_error, l, c)
    ELSE after(CHOOSE k \in DOMAIN l.bindings :
                 /\ l.bindings[k].binding_type = [kind |-> "Name", name |-> name]
                 /\ \A j \in 1..(k - 1) :
                       l.bindings[j].binding_type # [kind |-> "Name", name |-> name], LAMBDA k :
      after(type_check_expression(c, l.bindings[k].init, NoHint), LAMBDA r :
        IF ~r.ok THEN failed(r.err, [l EXCEPT !.bindings[k].init = r.e], r.ctx)
        ELSE after(type_check_expression(update(r.ctx, name, r.typ, l.bindings[k].mutable),
                                         l.expression, NoHint), LAMBDA v :
          IF ~v.ok
          THEN failed(v.err, [l EXCEPT !.bindings[k].init = r.e, !.bindings[k].typ = r.typ,
                                       !.expression = v.e], v.ctx)
          ELSE valid(v.typ, [l EXCEPT !.bindings[k].init = r.e, !.bindings[k].typ = r.typ,
                                      !.expression = v.e, !.typ = v.typ], v.ctx))))

update_binding_type(c, l, name, expected_type) ==
    IF ~\E k \in DOMAIN l.bindings : l.bindings[k].binding_type = [kind |-> "Name", name |-> name]
    THEN failed(type_error, l, c)
    ELSE after(CHOOSE k \in DOMAIN l.bindings :
                 /\ l.bindings[k].binding_type = [kind |-> "Name", name |-> name]
                 /\ \A j \in 1..(k - 1) :
                       l.bindings[j].binding_type # [kind |-> "Name", name |-> name], LAMBDA k :
      after(type_check_expression(c, l.bindings[k].init, expected_type), LAMBDA r :
        IF ~r.ok THEN failed(r.err, [l EXCEPT !.bindings[k].init = r.e], r.ctx)
        ELSE after(type_check_expression(update(r.ctx, name, r.typ, l.bindings[k].mutable),
                                         l.expression, NoHint), LAMBDA v :
          IF ~v.ok
          THEN failed(v.err, [l EXCEPT !.bindings[k].init = r.e, !.bindings[k].typ = r.typ,
                                       !.expression = v.e], v.ctx)
          ELSE valid(v.typ, [l EXCEPT !.bindings[k].init = r.e, !.bindings[k].typ = r.typ,
                                      !.expression = v.e, !.typ = v.typ], v.ctx))))

type_check_binding_expression(c, l) ==
    after(type_check_bindings(push_stack(c, FALSE), l, 1), LAMBDA d :
      IF ~d.ok THEN d
      ELSE after(type_check_expression(d.ctx, d.e.expression, NoHint), LAMBDA r :
        IF r.ok
        THEN valid(r.typ, [d.e EXCEPT !.expression = r.e, !.typ = r.typ], pop_stack(r.ctx))
        ELSE IF r.err.kind = "UnknownType"
        THEN after(update_binding_type(r.ctx, [d.e EXCEPT !.expression = r.e], r.err.name,
                                       r.err.expected), LAMBDA u :
               IF ~u.ok THEN u ELSE valid(u.typ, u.e, pop_stack(u.ctx)))
        ELSE failed(r.err, [d.e EXCEPT !.expression = r.e], r.ctx)))

\* type_check_assign, not asking whether the name is mutable.
type_check_assign_any_name(c, a) ==
    after(type_check_expression(c, a.left, NoHint), LAMBDA l :
      IF ~l.ok THEN failed(l.err, [a EXCEPT !.left = l.e], l.ctx)
      ELSE IF l.e.kind # "NameRef" THEN failed(type_error, [a EXCEPT !.left = l.e], l.ctx)
      ELSE IF ~resolve(l.ctx, l.e.name).found
      THEN failed(type_error, [a EXCEPT !.left = l.e], l.ctx)
      ELSE after(type_check_with_conversion(l.ctx, a.right, l.typ), LAMBDA r :
        IF ~r.ok THEN failed(r.err, [a EXCEPT !.left = l.e, !.right = r.e], r.ctx)
        ELSE valid(Void_t, [a EXCEPT !.left = l.e, !.right = r.e, !.typ = Void_t], r.ctx)))

type_check_assign(c, a) ==
    after(type_check_expression(c, a.left, NoHint), LAMBDA l :
      IF ~l.ok THEN failed(l.err, [a EXCEPT !.left = l.e], l.ctx)
      ELSE IF l.e.kind # "NameRef" THEN failed(type_error, [a EXCEPT !.left = l.e], l.ctx)
      ELSE IF ~(resolve(l.ctx, l.e.name).found /\ resolve(l.ctx, l.e.name).mutable)
      THEN failed(type_error, [a EXCEPT !.left = l.e], l.ctx)
      ELSE after(type_check_with_conversion(l.ctx, a.right, l.typ), LAMBDA r :
        IF ~r.ok THEN failed(r.err, [a EXCEPT !.left = l.e, !.right = r.e], r.ctx)
        ELSE valid(Void_t, [a EXCEPT !.left = l.e, !.right = r.e, !.typ = Void_t], r.ctx)))

\* The frame pushed for the loop variable is not popped.
type_check_for(c, f) ==
    after(type_check_expression(c, f.iterable, NoHint), LAMBDA t :
      IF ~t.ok THEN failed(t.err, [f EXCEPT !.iterable = t.e], t.ctx)
      ELSE IF t.typ.k \notin {"String", "Array", "Slice"}
      THEN failed(type_error, [f EXCEPT !.iterable = t.e], t.ctx)
      ELSE after([f EXCEPT !.iterable = t.e, !.loop_variable_type = get_element_type(t.typ)],
                 LAMBDA n :
        after(add(push_stack(t.ctx, FALSE), n.loop_variable, n.loop_variable_type, FALSE),
              LAMBDA a :
          IF ~a.ok THEN failed(type_error, n, a.ctx)
          ELSE after(type_check_expression(a.ctx, n.body, NoHint), LAMBDA b :
            IF ~b.ok THEN failed(b.err, [n EXCEPT !.body = b.e], b.ctx)
            ELSE valid(Void_t, [n EXCEPT !.body = b.e], b.ctx)))))

\* type_check_cast, allowing the cast of a numeric type to itself.
type_check_cast_to_itself(c, t) ==
    after(type_check_expression(c, t.inner, NoHint), LAMBDA r :
      IF ~r.ok THEN failed(r.err, [t EXCEPT !.inner = r.e], r.ctx)
      ELSE IF is_numeric(r.typ) /\ is_numeric(t.destination_type)
      THEN valid(t.destination_type, [t EXCEPT !.inner = r.e], r.ctx)
      ELSE failed(type_error, [t EXCEPT !.inner = r.e], r.ctx))

\* type_check_cast, allowing every destination for a numeric source.
type_check_cast_from_numeric(c, t) ==
    after(type_check_expression(c, t.inner, NoHint), LAMBDA r :
      IF ~r.ok THEN failed(r.err, [t EXCEPT !.inner = r.e], r.ctx)
      ELSE IF is_numeric(r.typ) /\ r.typ # t.destination_type
      THEN valid(t.destination_type, [t EXCEPT !.inner = r.e], r.ctx)
      ELSE failed(type_error, [t EXCEPT !.inner = r.e], r.ctx))

type_check_cast(c, t) ==
    after(type_check_expression(c, t.inner, NoHint), LAMBDA r :
      IF ~r.ok THEN failed(r.err, [t EXCEPT !.inner = r.e], r.ctx)
      ELSE IF <<r.typ, t.destination_type>> \in
                 {<<Int_t, UInt_t>>, <<Int_t, Float_t>>, <<UInt_t, Int_t>>, <<UInt_t, Float_t>>,
                  <<Float_t, Int_t>>, <<Float_t, UInt_t>>}
      THEN valid(t.destination_type, [t EXCEPT !.inner = r.e], r.ctx)
      ELSE failed(type_error, [t EXCEPT !.inner = r.e], r.ctx))

\* The match of type_check_expression on the kind of e.
type_check_action(c, e, type_hint) ==
    CASE e.kind = "UnaryOp" -> type_check_unary_op(c, e)
      [] e.kind = "BinaryOp" -> type_check_binary_op(c, e)
      [] e.kind = "ArrayLiteral" -> type_check_array_literal(c, e)
      [] e.kind = "Literal" -> valid(e.typ, e, c)
      [] e.kind = "Call" -> type_check_call(c, e)
      [] e.kind = "NameRef" -> type_check_name(c, e, type_hint)
      [] e.kind = "Lambda" -> type_check_lambda(c, e, type_hint)
      [] e.kind = "Block" -> type_check_block(c, e, type_hint)
      [] e.kind = "ArrayToSlice" -> type_check_array_to_slice(c, e, type_hint)
      [] e.kind = "Void" -> valid(Void_t, e, c)
      [] e.kind = "Nil" -> valid(Nil_t, e, c)
      [] e.kind = "ToOptional" -> type_check_to_optional(c, e)
      [] e.kind = "If" -> type_check_if(c, e)
      [] e.kind = "Cast" -> type_check_cast(c, e)
      [] e.kind = "MemberAccess" -> type_check_member_access(c, e)
      [] e.kind = "Match" -> type_check_match(c, e)
      [] e.kind = "Assign" -> type_check_assign(c, e)
      [] e.kind = "For" -> type_check_for(c, e)
      [] e.kind = "Binding" -> type_check_binding_expression(c, e)
      [] e.kind = "Bindings" -> type_check_bindings(c, e, 1)
      [] e.kind = "AddressOf" -> type_check_address_of(c, e, type_hint)

\* type_check_expression handing a replacement back unchecked.
type_check_expression_unreplaced(c, e, type_hint) == type_check_action(c, e, type_hint)

\* A replacement overwrites e and is checked with the same hint.
type_check_expression(c, e, type_hint) ==
    after(type_check_action(c, e, type_hint), LAMBDA r :
      IF r.ok /\ r.replace THEN type_check_expression(r.ctx, r.e, type_hint) ELSE r)

\* type_check_function without its last statement.
mark_type_checked_never(fun) == fun

\* fun.type_checked = true, the last statement of type_check_function.
mark_type_checked(fun) == [fun EXCEPT !.type_checked = TRUE]

\* type_check_function after the check of the body and the pop of the frame.
function_body_checked(fun, r) ==
    IF ~r.ok THEN failed(r.err, [fun EXCEPT !.expression = r.e], r.ctx)
    ELSE IF r.typ # fun.sig.return_type
    THEN IF can_convert(fun.sig.return_type, r.typ)
         THEN valid(fun.sig.typ,
                    mark_type_checked([fun EXCEPT !.expression = convert(fun.sig.return_type, r.typ, r.e)]),
                    pop_stack(r.ctx))
         ELSE failed(type_error, [fun EXCEPT !.expression = r.e], pop_stack(r.ctx))
    ELSE valid(fun.sig.typ, mark_type_checked([fun EXCEPT !.expression = r.e]), pop_stack(r.ctx))

\* type_check_function after the arguments were declared.
function_args_added(fun, a) ==
    IF ~a.ok THEN failed(type_error, fun, a.ctx)
    ELSE after(type_check_expression(a.ctx, fun.expression, NoHint),
               LAMBDA r : function_body_checked(fun, r))

\* type_check_function: the result's e is the function as the check left it.
type_check_function(c, fun) ==
    after(add_args(push_stack(c, TRUE), fun.sig.args, 1), LAMBDA a : function_args_added(fun, a))

function(name, args, ret, e) ==
    [sig |-> sig(name, args, ret), expression |-> e, type_checked |-> FALSE]

(***************************************************************************)
(* Walks over expression trees.                                            *)
(***************************************************************************)
children(e) ==
    CASE e.kind = "UnaryOp" -> <<e.expression>>
      [] e.kind = "BinaryOp" -> <<e.left, e.right>>
      [] e.kind = "ArrayLiteral" -> e.elements
      [] e.kind = "Call" -> e.args
      [] e.kind = "Lambda" -> <<e.expr>>
      [] e.kind = "Block" -> e.expressions
      [] e.kind \in {"ArrayToSlice", "ToOptional", "Cast", "AddressOf"} -> <<e.inner>>
      [] e.kind = "MemberAccess" ->
            <<e.left>> \o (IF e.right.kind = "Call" THEN e.right.args ELSE <<>>)
      [] e.kind = "If" -> <<e.condition, e.on_true>> \o e.on_false
      [] e.kind = "Assign" -> <<e.left, e.right>>
      [] e.kind = "For" -> <<e.iterable, e.body>>
      [] e.kind = "Match" -> <<e.target>> \o [i \in DOMAIN e.cases |-> e.cases[i].to_execute]
      [] e.kind = "Binding" -> [i \in DOMAIN e.bindings |-> e.bindings[i].init] \o <<e.expression>>
      [] e.kind = "Bindings" -> [i \in DOMAIN e.bindings |-> e.bindings[i].init]
      [] OTHER -> <<>>

with_children(e, cs) ==
    CASE e.kind = "UnaryOp" -> [e EXCEPT !.expression = cs[1]]
      [] e.kind = "BinaryOp" -> [e EXCEPT !.left = cs[1], !.right = cs[2]]
      [] e.kind = "ArrayLiteral" -> [e EXCEPT !.elements = cs]
      [] e.kind = "Call" -> [e EXCEPT !.args = cs]
      [] e.kind = "Lambda" -> [e EXCEPT !.expr = cs[1]]
      [] e.kind = "Block" -> [e EXCEPT !.expressions = cs]
      [] e.kind \in {"ArrayToSlice", "ToOptional", "Cast", "AddressOf"} ->
            [e EXCEPT !.inner = cs[1]]
      [] e.kind = "MemberAccess" ->
            IF e.right.kind = "Call"
            THEN [e EXCEPT !.left = cs[1], !.right.args = SubSeq(cs, 2, Len(cs))]
            ELSE [e EXCEPT !.left = cs[1]]
      [] e.kind = "If" ->
            [e EXCEPT !.condition = cs[1], !.on_true = cs[2], !.on_false = SubSeq(cs, 3, Len(cs))]
      [] e.kind = "Assign" -> [e EXCEPT !.left = cs[1], !.right = cs[2]]
      [] e.kind = "For" -> [e EXCEPT !.iterable = cs[1], !.body = cs[2]]
      [] e.kind = "Binding" ->
            [e EXCEPT !.bindings = [i \in DOMAIN @ |-> [@[i] EXCEPT !.init = cs[i]]],
                      !.expression = cs[Len(cs)]]
      [] e.kind = "Bindings" ->
            [e EXCEPT !.bindings = [i \in DOMAIN @ |-> [@[i] EXCEPT !.init = cs[i]]]]
      [] e.kind = "Match" ->
            [e EXCEPT !.target = cs[1],
                      !.cases = [i \in DOMAIN e.cases |-> [e.cases[i] EXCEPT !.to_execute = cs[i + 1]]]]
      [] OTHER -> e

RECURSIVE nodes(_)
\* Every node of an expression tree.
nodes(e) == {e} \cup UNION {nodes(children(e)[i]) : i \in DOMAIN children(e)}

(***************************************************************************)
(* instantiate_generics (instantiategenerics.rs is not part of the         *)
(* sources; section 4.3 of the specification): every call of a generic     *)
(* function whose substitution is fully determined gets a clone of the     *)
(* function, made concrete and registered under a mangled name, unless     *)
(* that clone exists; the call site is redirected to the clone.            *)
(***************************************************************************)
RECURSIVE subst_names(_, _)
subst_names(subst, i) ==
    IF i > Len(subst) THEN ""
    ELSE (IF i > 1 THEN "," ELSE "") \o type_name(subst[i].typ) \o subst_names(subst, i + 1)

\* The name of the clone of function name under a substitution.
new_func_name(name, subst) == name \o "<" \o subst_names(subst, 1) \o ">"

is_generic_function(f) == is_generic(f.sig.typ)

\* A call of a generic function of the module whose substitution makes the
\* callee's signature concrete.
is_determined_call(m, e) ==
    /\ e.kind = "Call"
    /\ e.callee.name \in DOMAIN m.functions
    /\ is_generic_function(m.functions[e.callee.name])
    /\ ~is_generic(make_concrete(e.generic_args, m.functions[e.callee.name].sig.typ))

\* The types a node records, made concrete.
retype(subst, e) ==
    CASE e.kind \in {"UnaryOp", "BinaryOp", "NameRef", "Block"} ->
            [e EXCEPT !.typ = make_concrete(subst, @)]
      [] e.kind = "ArrayLiteral" -> [e EXCEPT !.array_type = make_concrete(subst, @)]
      [] e.kind = "Call" ->
            [e EXCEPT !.return_type = make_concrete(subst, @),
                      !.generic_args = [i \in DOMAIN e.generic_args |->
                                          [e.generic_args[i] EXCEPT !.typ = make_concrete(subst, @)]]]
      [] e.kind = "Lambda" ->
            [e EXCEPT !.sig = sig(e.sig.name,
                                  [i \in DOMAIN e.sig.args |->
                                     [e.sig.args[i] EXCEPT !.typ = make_concrete(subst, @)]],
                                  make_concrete(subst, e.sig.return_type))]
      [] e.kind = "ArrayToSlice" -> [e EXCEPT !.slice_type = make_concrete(subst, @)]
      [] e.kind = "ToOptional" -> [e EXCEPT !.optional_type = make_concrete(subst, @)]
      [] OTHER -> e

RECURSIVE substitute_expr(_, _)
\* The body of a clone: the expression with every recorded type made concrete.
substitute_expr(subst, e) ==
    retype(subst, with_children(e, [i \in DOMAIN children(e) |-> substitute_expr(subst, children(e)[i])]))

\* The clone of function f under a substitution.
instantiate(f, subst) ==
    function(new_func_name(f.sig.name, subst),
             [i \in DOMAIN f.sig.args |-> [f.sig.args[i] EXCEPT !.typ = make_concrete(subst, @)]],
             make_concrete(subst, f.sig.return_type),
             substitute_expr(subst, f.expression))

RECURSIVE replace_generic_calls(_, _)
\* The expression with every determined call redirected to its clone.
replace_generic_calls(m, e) ==
    LET e1 == with_children(e, [i \in DOMAIN children(e) |-> replace_generic_calls(m, children(e)[i])])
    IN IF is_determined_call(m, e)
       THEN [e1 EXCEPT !.callee.name =
                full_name_of(new_func_name(m.functions[e.callee.name].sig.name, e.generic_args))]
       ELSE e1

\* The determined calls in the bodies of the non-generic functions.
determined_calls(m) ==
    UNION {{e \in nodes(m.functions[n].expression) : is_determined_call(m, e)} :
           n \in {k \in DOMAIN m.functions : ~is_generic_function(m.functions[k])}}

\* The clones instantiate_generics adds: one per (function, substitution)
\* pair that is not materialised yet.
new_functions(m) ==
    {instantiate(m.functions[e.callee.name], e.generic_args) : e \in determined_calls(m)}

instantiate_generics(m) ==
    LET fresh == {f \in new_functions(m) : full_name_of(f.sig.name) \notin DOMAIN m.functions}
        names == DOMAIN m.functions \cup {full_name_of(f.sig.name) : f \in fresh}
    IN [m EXCEPT !.functions =
          [n \in names |->
             IF n \in DOMAIN m.functions
             THEN IF is_generic_function(m.functions[n]) THEN m.functions[n]
                  ELSE [m.functions[n] EXCEPT !.expression = replace_generic_calls(m, @)]
             ELSE CHOOSE f \in fresh : full_name_of(f.sig.name) = n]]

(***************************************************************************)
(* The module driver, type_check_module.                                   *)
(***************************************************************************)
RECURSIVE add_globals(_, _)
\* The entries of a set of signatures added to the globals layer.
add_globals(c, sigs) ==
    IF sigs = {} THEN c
    ELSE after(CHOOSE x \in sigs : TRUE,
               LAMBDA s : after(add_global(c, s.name, s.typ, FALSE),
                                LAMBDA a : add_globals(a.ctx, sigs \ {s})))

\* resolve_types (typeresolver.rs is not part of the sources): the declared
\* functions and externals are registered in the fresh context.
resolve_types(c, m) ==
    add_globals(c, {m.functions[n].sig : n \in DOMAIN m.functions}
                   \cup {m.externals[n].sig : n \in DOMAIN m.externals})

\* The exit test with <= for ==.
loop_exits_early(cnt, m) == cnt <= Cardinality(DOMAIN m.functions)

\* The exit test of the loop of type_check_module.
loop_exits(cnt, m) == cnt = Cardinality(DOMAIN m.functions)

\* The test that selects the functions a pass checks.
needs_check(f) == ~f.type_checked

\* loop { let mut ctx = TypeCheckerContext::new(); resolve_types(...)?;
BeginPass ==
    /\ pc = "loop"
    /\ ctx' = resolve_types(new_context(ctx.uuid), module)
    /\ pc' = "globals"
    /\ todo' = DOMAIN module.globals
    /\ pass_start' = module
    /\ iteration' = iteration + 1
    /\ UNCHANGED <<module, result, count, grew, first_check, x_input, x_result>>

\* The global g registered (a is the result of add_global): an error ends
\* type_check_module.
global_added(g, r, a) ==
    /\ module' = [module EXCEPT !.globals[g].init = r.e, !.globals[g].typ = r.typ]
    /\ ctx' = a.ctx
    /\ pc' = IF a.ok THEN "globals" ELSE "done"
    /\ result' = IF a.ok THEN result ELSE "Err"
    /\ todo' = IF a.ok THEN todo \ {g} ELSE todo

\* The initializer of the global g checked (r is the result of the check).
global_checked(g, gl, r) ==
    IF ~r.ok
    THEN /\ module' = [module EXCEPT !.globals[g].init = r.e]
         /\ ctx' = r.ctx
         /\ pc' = "done"
         /\ result' = "Err"
         /\ todo' = todo
    ELSE \E a \in {add_global(r.ctx, gl.name, r.typ, gl.mutable)} : global_added(g, r, a)

\* for global in module.globals.values_mut(): a global of Unknown type is
\* checked and registered; an error ends type_check_module.
CheckGlobal ==
    /\ pc = "globals"
    /\ \E g \in todo :
         IF module.globals[g].typ # Unknown_t
         THEN /\ todo' = todo \ {g}
              /\ UNCHANGED <<module, ctx, pc, result>>
         ELSE \E r \in {type_check_expression(ctx, module.globals[g].init, NoHint)} :
                 global_checked(g, module.globals[g], r)
    /\ UNCHANGED <<count, grew, pass_start, iteration, first_check, x_input, x_result>>

\* The loop over the globals is over: the loop over the functions starts.
EndGlobals ==
    /\ pc = "globals"
    /\ todo = {}
    /\ pc' = "functions"
    /\ todo' = DOMAIN module.functions
    /\ UNCHANGED <<module, ctx, result, count, grew, pass_start, iteration, first_check,
                   x_input, x_result>>

\* A driver that restores the module of the start of the pass on an error.
function_checked_rollback(f, r) ==
    /\ module' = IF r.ok THEN [module EXCEPT !.functions[f] = r.e] ELSE pass_start
    /\ ctx' = r.ctx
    /\ pc' = IF r.ok THEN "functions" ELSE "done"
    /\ result' = IF r.ok THEN result ELSE "Err"
    /\ todo' = IF r.ok THEN todo \ {f} ELSE todo

\* The function f checked (r is the result of type_check_function): an
\* error ends type_check_module.
function_checked(f, r) ==
    /\ module' = [module EXCEPT !.functions[f] = r.e]
    /\ ctx' = r.ctx
    /\ pc' = IF r.ok THEN "functions" ELSE "done"
    /\ result' = IF r.ok THEN result ELSE "Err"
    /\ todo' = IF r.ok THEN todo \ {f} ELSE todo

\* for f in module.functions.values_mut() { if !f.type_checked {
\* type_check_function(&mut ctx, f)?; } }: one function that is not checked.
CheckFunction ==
    /\ pc = "functions"
    /\ \E f \in todo :
         /\ needs_check(module.functions[f])
         /\ \E r \in {type_check_function(ctx, module.functions[f])} : function_checked(f, r)
    /\ UNCHANGED <<count, grew, pass_start, iteration, first_check, x_input, x_result>>

\* The same loop at a function that is checked already.
SkipFunction ==
    /\ pc = "functions"
    /\ \E f \in todo :
         /\ ~needs_check(module.functions[f])
         /\ todo' = todo \ {f}
    /\ UNCHANGED <<module, ctx, pc, result, count, grew, pass_start, iteration, first_check,
                   x_input, x_result>>

\* let count = module.functions.len(); instantiate_generics(module, &ctx)?;
\* if count == module.functions.len() { break; } ... Ok(())
Instantiate ==
    /\ pc = "functions"
    /\ todo = {}
    /\ count' = Cardinality(DOMAIN module.functions)
    /\ module' = instantiate_generics(module)
    /\ grew' = (Cardinality(DOMAIN module'.functions) # count')
    /\ pc' = IF loop_exits(count', module') THEN "done" ELSE "loop"
    /\ result' = IF loop_exits(count', module') THEN "Ok" ELSE result
    /\ UNCHANGED <<ctx, todo, pass_start, iteration, first_check, x_input, x_result>>

(***************************************************************************)
(* The modules checked: a main function and at most MaxHelpers of the      *)
(* helper functions, as the parser hands them over (no type recorded, no   *)
(* function checked).                                                      *)
(***************************************************************************)
MaxHelpers == 2

T_t == generic_type("T")

IntToInt == func_type(<<Int_t>>, Int_t)

one == literal(Int_t)

Helpers ==
    { \* id(x: $T) -> $T = x
      function("id", <<argument("x", T_t)>>, T_t, name_ref("x")),
      \* twice(x: $T) -> $T = id(x)
      function("twice", <<argument("x", T_t)>>, T_t, call("id", <<name_ref("x")>>)),
      \* inc(x: Int) -> Int = x + 1
      function("inc", <<argument("x", Int_t)>>, Int_t, bin_op("Add", name_ref("x"), one)),
      \* opt(x: Int) -> ?Int = x
      function("opt", <<argument("x", Int_t)>>, optional_type(Int_t), name_ref("x")),
      \* apply(f: (Int) -> Int, x: Int) -> Int = f(x)
      function("apply", <<argument("f", IntToInt), argument("x", Int_t)>>, Int_t,
               call("f", <<name_ref("x")>>)),
      \* bad(x: Int) -> Bool = x
      function("bad", <<argument("x", Int_t)>>, Bool_t, name_ref("x")),
      \* und(x: Int) -> Int = { _; x }
      function("und", <<argument("x", Int_t)>>, Int_t, block(<<name_ref("_"), name_ref("x")>>)),
      \* gadd(a: $T, b: $T) -> $T = a + b
      function("gadd", <<argument("a", T_t), argument("b", T_t)>>, T_t,
               bin_op("Add", name_ref("a"), name_ref("b"))) }

Mains ==
    { \* main() -> Int = id(1)
      function("main", <<>>, Int_t, call("id", <<one>>)),
      \* main() -> Int = twice(1)
      function("main", <<>>, Int_t, call("twice", <<one>>)),
      \* main() -> Int = apply(@(a) -> a + 1, 1)
      function("main", <<>>, Int_t,
               call("apply", <<lambda(<<argument("a", generic_type("a"))>>,
                                      bin_op("Add", name_ref("a"), one)), one>>)),
      \* main() -> Int = inc(g)
      function("main", <<>>, Int_t, call("inc", <<name_ref("g")>>)),
      \* main() -> Int = inc(1, 1)
      function("main", <<>>, Int_t, call("inc", <<one, one>>)),
      \* main() -> Int = gadd(1, 1)
      function("main", <<>>, Int_t, call("gadd", <<one, one>>)) }

\* The module of a set of functions, with the global g = 1 and the external print.
make_module(fs) ==
    [functions |-> [n \in {full_name_of(f.sig.name) : f \in fs} |->
                      CHOOSE f \in fs : full_name_of(f.sig.name) = n],
     externals |-> [n \in {full_name_of("print")} |->
                      [sig |-> sig("print", <<argument("v", Int_t)>>, Void_t)]],
     globals |-> [n \in {"g"} |->
                      [name |-> "g", typ |-> Unknown_t, init |-> one, mutable |-> FALSE]]]

Modules ==
    {make_module({main} \cup hs) :
        main \in Mains, hs \in {S \in SUBSET Helpers : Cardinality(S) <= MaxHelpers}}

NoModule == [functions |-> <<>>, externals |-> <<>>, globals |-> <<>>]

NoInput == [e |-> void_expr, hint |-> NoHint]

NoResult == failed(NoError, void_expr, new_context(0))

Init ==
    /\ module \in Modules
    /\ ctx = new_context(0)
    /\ pc = "loop"
    /\ result = "running"
    /\ todo = {}
    /\ count = 0
    /\ grew = FALSE
    /\ pass_start = module
    /\ iteration = 0
    /\ first_check = NoModule
    /\ x_input = NoInput
    /\ x_result = NoResult

Next ==
    \/ BeginPass
    \/ CheckGlobal
    \/ EndGlobals
    \/ CheckFunction
    \/ SkipFunction
    \/ Instantiate

Spec == Init /\ [][Next]_vars

\* type_check_module runs to its end: no step of it waits for anything.
FairSpec == Spec /\ WF_vars(Next)

(***************************************************************************)
(* Modules with the globals g = 1 and h = @(a: Int) -> a + 1, and generic  *)
(* functions that use them: their clones are checked in the second pass.   *)
(***************************************************************************)
GlobalHelpers ==
    { \* callh(x: $T) -> Int = h(1)
      function("callh", <<argument("x", T_t)>>, Int_t, call("h", <<one>>)),
      \* useg(x: $T) -> Int = g
      function("useg", <<argument("x", T_t)>>, Int_t, name_ref("g")),
      \* id(x: $T) -> $T = x
      function("id", <<argument("x", T_t)>>, T_t, name_ref("x")),
      \* inc(x: Int) -> Int = x + 1
      function("inc", <<argument("x", Int_t)>>, Int_t, bin_op("Add", name_ref("x"), one)) }

GlobalMains ==
    {function("main", <<>>, Int_t, call(callee, <<one>>)) :
        callee \in {"callh", "useg", "id", "h", "inc"}}

module_with_globals(fs) ==
    [make_module(fs) EXCEPT !.globals =
        [n \in {"g", "h"} |->
            [name |-> n, typ |-> Unknown_t, mutable |-> FALSE,
             init |-> IF n = "g" THEN one
                      ELSE lambda(<<argument("a", Int_t)>>, bin_op("Add", name_ref("a"), one))]]]

GlobalModules ==
    {module_with_globals({main} \cup hs) :
        main \in GlobalMains, hs \in {S \in SUBSET GlobalHelpers : Cardinality(S) <= MaxHelpers}}

InitGlobals ==
    /\ module \in GlobalModules
    /\ ctx = new_context(0)
    /\ pc = "loop"
    /\ result = "running"
    /\ todo = {}
    /\ count = 0
    /\ grew = FALSE
    /\ pass_start = module
    /\ iteration = 0
    /\ first_check = NoModule
    /\ x_input = NoInput
    /\ x_result = NoResult

SpecGlobals == InitGlobals /\ [][Next]_vars

(***************************************************************************)
(* A second check of a checked module: the caller resets type_checked on   *)
(* every function and calls type_check_module again.  The UUIDs drawn by   *)
(* the second call differ from those of the first (uuid counts on).        *)
(***************************************************************************)
reset_type_checked(m) ==
    [m EXCEPT !.functions = [n \in DOMAIN m.functions |-> [m.functions[n] EXCEPT !.type_checked = FALSE]]]

Recheck ==
    /\ pc = "done"
    /\ result = "Ok"
    /\ first_check = NoModule
    /\ first_check' = module
    /\ module' = reset_type_checked(module)
    /\ pass_start' = reset_type_checked(module)
    /\ pc' = "loop"
    /\ result' = "running"
    /\ todo' = {}
    /\ iteration' = 0
    /\ grew' = FALSE
    /\ UNCHANGED <<ctx, count, x_input, x_result>>

NextTwice ==
    \/ BeginPass
    \/ CheckGlobal
    \/ EndGlobals
    \/ CheckFunction
    \/ SkipFunction
    \/ Instantiate
    \/ Recheck

SpecTwice == Init /\ [][NextTwice]_vars

(***************************************************************************)
(* Checks of single expressions: type_check_expression applied to a binary *)
(* operation or an array literal, with or without a hint, inside a         *)
(* function whose arguments have the types the operands need.              *)
(***************************************************************************)
MaxElements == 2

\* struct Point {x: Int, y: Int} and the sum type Shape = Circle{r: Int} | Empty.
Point == struct_type("Point", <<struct_member("x", Int_t), struct_member("y", Int_t)>>)

Shape ==
    sum_type("Shape",
             <<sum_type_case("Circle", struct_type("Circle", <<struct_member("r", Int_t)>>)),
               sum_type_case("Empty", Int_t)>>)

\* enum Color {Red, Green}
Color == enum_type("Color", <<"Red", "Green">>)

\* The names of the module the expressions are checked in: the types with
\* the cases of Shape and Color, member functions of Point and Shape, and
\* plain functions.
expression_globals ==
    {[name |-> "Point", typ |-> Point], [name |-> "Circle", typ |-> Shape],
     [name |-> "Empty", typ |-> Shape], [name |-> "Red", typ |-> Color],
     [name |-> "Green", typ |-> Color],
     sig("Point.sum", <<argument("self", ptr_type(Point))>>, Int_t),
     sig("Point.add", <<argument("self", ptr_type(Point)), argument("n", Int_t)>>, Int_t),
     sig("Point.val", <<argument("self", Point)>>, Int_t),
     sig("Shape.area", <<argument("self", ptr_type(Shape))>>, Int_t),
     sig("inc", <<argument("n", Int_t)>>, Int_t),
     sig("id", <<argument("x", T_t)>>, T_t),
     sig("wrap", <<argument("x", generic_type("U"))>>, generic_type("U")),
     sig("pair", <<argument("x", T_t), argument("y", generic_type("U"))>>, T_t),
     sig("opt", <<argument("o", optional_type(Int_t))>>, Int_t),
     sig("apply", <<argument("f", IntToInt), argument("n", Int_t)>>, Int_t),
     sig("both", <<argument("f", IntToInt), argument("h", IntToInt)>>, Int_t)}

\* The context inside a function of that module with the arguments i: Int,
\* b: Bool, oi: ?Int, ob: ?Bool, t: $T, q: Point, pq: *Point, ppq: **Point,
\* s: Shape, col: Color, xs: [Int; 2], str: String, g: (Int) -> Int and the
\* mutable m: Int and mo: ?Int.
expression_context ==
    add_args(push_stack(add_globals(new_context(0), expression_globals), TRUE),
             <<argument("i", Int_t), argument("b", Bool_t), argument("oi", optional_type(Int_t)),
               argument("ob", optional_type(Bool_t)), argument("t", T_t),
               argument("q", Point), argument("pq", ptr_type(Point)),
               argument("ppq", ptr_type(ptr_type(Point))), argument("s", Shape),
               argument("col", Color),
               argument("xs", array_type(Int_t, 2)), argument("str", String_t),
               argument("g", IntToInt),
               [argument("m", Int_t) EXCEPT !.mutable = TRUE],
               [argument("mo", optional_type(Int_t)) EXCEPT !.mutable = TRUE]>>, 1).ctx

\* @(a) -> a, a lambda whose argument has no declared type.
generic_lambda == lambda(<<argument("a", generic_type("a"))>>, name_ref("a"))

Operands ==
    {name_ref("i"), name_ref("b"), name_ref("oi"), name_ref("ob"), name_ref("t"), name_ref("_"),
     literal(Int_t), literal(Bool_t), nil_expr, generic_lambda,
     unary_op("Sub", name_ref("i")), unary_op("Not", name_ref("b"))}

BinaryOperators == {"Add", "LessThan", "And", "Or", "Equals", "NotEquals"}

BinaryOps == {bin_op(op, l, r) : op \in BinaryOperators, l \in Operands, r \in Operands}

ArrayLiterals ==
    {array_lit(es) : es \in UNION {[1..n -> Operands] : n \in 0..MaxElements}}

Hints == {NoHint, array_type(Int_t, 0), array_type(Bool_t, 0), array_type(optional_type(Int_t), 0)}

\* if expressions: a branch is a plain expression or an if expression of
\* plain branches; <<>> is the missing else.
PlainBranches ==
    {nil_expr, void_expr, literal(Int_t), literal(Bool_t), name_ref("oi"), generic_lambda}

InnerIfs ==
    {if_expr(name_ref("b"), t, f) :
        t \in {nil_expr, literal(Int_t)}, f \in {<<>>, <<nil_expr>>, <<literal(Int_t)>>}}

IfExpressions ==
    {if_expr(cond, t, f) :
        cond \in {name_ref("b"), name_ref("i")},
        t \in PlainBranches \cup InnerIfs,
        f \in {<<>>} \cup {<<e>> : e \in PlainBranches \cup InnerIfs}}

\* Casts of every kind of source to every kind of destination.
Casts ==
    {cast(inner, t) :
        inner \in {literal(Int_t), literal(UInt_t), literal(Float_t), literal(Bool_t),
                   literal(String_t), name_ref("oi"), name_ref("t"), nil_expr,
                   unary_op("Sub", name_ref("i")), name_ref("nobody")},
        t \in {Int_t, UInt_t, Float_t, Bool_t, String_t, optional_type(Int_t), T_t}}

\* Member accesses: fields, properties and member calls on receivers of
\* every kind.
MemberAccesses ==
    {member_access(l, r) :
        l \in {name_ref("q"), name_ref("pq"), name_ref("ppq"), name_ref("s"), name_ref("i"),
               name_ref("t"), name_ref("xs"), address_of(name_ref("q")), name_ref("nobody")},
        r \in {call("sum", <<>>), call("add", <<literal(Int_t)>>), call("add", <<>>),
               call("add", <<literal(Bool_t)>>), call("val", <<>>), call("area", <<>>),
               call("nothing", <<>>), field("x"), field("y"), field("z"), field("length")}}

\* Calls of functions, of a function-typed argument, of an Int and of an
\* unknown name, with up to MaxArguments arguments.
MaxArguments == 2

Calls ==
    {call(callee, args) :
        callee \in {"inc", "id", "opt", "apply", "g", "i", "nobody"},
        args \in UNION {[1..n -> {literal(Int_t), literal(Bool_t), name_ref("oi"), name_ref("g"),
                                  name_ref("nobody"), generic_lambda}] : n \in 0..MaxArguments}}

\* Matches of up to MaxCases cases on an optional, an array, a sum, an
\* Int, an enum and a struct.
MaxCases == 2

MatchCases ==
    {match_case(pattern, body) :
        pattern \in {nil_pattern, optional_pattern("v"), any_pattern, empty_array_pattern,
                     array_pattern("h", "tl"), name_pattern("Empty"),
                     struct_pattern("Circle", <<"r">>), literal_pattern(literal(Int_t))},
        body \in {literal(Int_t), literal(Bool_t)}}
    \cup {match_case(any_pattern, generic_lambda), match_case(any_pattern, name_ref("nobody")),
          match_case(nil_pattern, name_ref("nobody")),
          match_case(optional_pattern("v"), name_ref("v")),
          match_case(array_pattern("h", "tl"), name_ref("h")),
          match_case(struct_pattern("Circle", <<"r">>), name_ref("r")),
          match_case(struct_pattern("Point", <<"x">>), literal(Int_t)),
          match_case(struct_pattern("Point", <<"_", "y">>), name_ref("y")),
          match_case(struct_pattern("Circle", <<"r", "z">>), literal(Int_t)),
          match_case(name_pattern("Red"), literal(Int_t)),
          match_case(name_pattern("Green"), literal(Int_t)),
          match_case(name_pattern("Circle"), literal(Int_t)),
          match_case(name_pattern("i"), literal(Int_t)),
          match_case(name_pattern("s"), literal(Int_t)),
          match_case(name_pattern("nobody"), literal(Int_t))}

Matches ==
    {match_expr(target, cases) :
        target \in {name_ref("oi"), name_ref("xs"), name_ref("s"), name_ref("i"),
                    name_ref("col"), name_ref("q")},
        cases \in UNION {[1..n -> MatchCases] : n \in 0..MaxCases}}

\* @(a) -> !a, which has no type (Int) -> Int.
negating_lambda == lambda(<<argument("a", generic_type("a"))>>, unary_op("Not", name_ref("a")))

\* Binding expressions: f, or f and h, bound to lambdas and other
\* initializers, around bodies that need the type of f or h, that fail in
\* another way, or that need the type of f inside a binding expression of
\* their own; and a struct binding.
BindingExpressions ==
    {binding_expr(bs, body) :
        bs \in {<<name_binding("f", init, FALSE)>> :
                   init \in {generic_lambda, negating_lambda, literal(Int_t), name_ref("nobody")}}
               \cup {<<name_binding("f", init, FALSE), name_binding("h", other, FALSE)>> :
                        init \in {generic_lambda, negating_lambda, literal(Int_t)},
                        other \in {generic_lambda, negating_lambda, literal(Int_t)}}
               \cup {<<struct_binding(<<"x", "_">>, name_ref("q"))>>,
                     <<struct_binding(<<"x">>, name_ref("q"))>>},
        body \in {call("apply", <<name_ref("f"), literal(Int_t)>>),
                  call("apply", <<name_ref("h"), literal(Int_t)>>),
                  call("both", <<name_ref("f"), name_ref("h")>>),
                  call("inc", <<name_ref("f")>>),
                  call("inc", <<name_ref("x")>>),
                  call("apply", <<name_ref("nobody"), literal(Int_t)>>),
                  name_ref("f"),
                  block(<<call("apply", <<name_ref("f"), literal(Int_t)>>)>>),
                  match_expr(name_ref("oi"),
                             <<match_case(optional_pattern("v"),
                                          call("apply", <<name_ref("f"), name_ref("v")>>)),
                               match_case(nil_pattern, literal(Int_t))>>),
                  binding_expr(<<name_binding("k", literal(Int_t), FALSE)>>,
                               call("apply", <<name_ref("f"), name_ref("k")>>))}}

\* for loops over sequences and over what is none.
ForLoops ==
    {for_loop(v, iterable, body) :
        v \in {"v", "i"},
        iterable \in {name_ref("xs"), name_ref("str"), name_ref("i"), name_ref("oi"),
                      array_lit(<<literal(Bool_t)>>), name_ref("nobody")},
        body \in {name_ref("v"), literal(Int_t), name_ref("nobody"),
                  call("inc", <<name_ref("v")>>)}}

\* Assignments to mutable and immutable names, to names that do not
\* resolve and to what is not a name.
Assignments ==
    {assign(left, right) :
        left \in {name_ref("m"), name_ref("mo"), name_ref("i"), name_ref("oi"),
                  name_ref("nobody"), name_ref("_"), literal(Int_t),
                  unary_op("Sub", name_ref("m")), member_access(name_ref("q"), field("x"))},
        right \in {literal(Int_t), literal(Bool_t), nil_expr, name_ref("oi"), name_ref("i"),
                   name_ref("nobody")}}

Expressions ==
    IfExpressions \cup Casts \cup MemberAccesses \cup Calls \cup Matches \cup BindingExpressions
        \cup ForLoops \cup Assignments

InitExpr ==
    /\ module = NoModule
    /\ ctx = expression_context
    /\ pc = "check"
    /\ result = "running"
    /\ todo = {}
    /\ count = 0
    /\ grew = FALSE
    /\ pass_start = NoModule
    /\ iteration = 0
    /\ first_check = NoModule
    /\ x_input \in [e : BinaryOps \cup ArrayLiterals, hint : Hints]
                    \cup [e : Expressions, hint : {NoHint}]
    /\ x_result = NoResult

\* type_check_expression(ctx, e, hint)
CheckExpression ==
    /\ pc = "check"
    /\ x_result' = type_check_expression(ctx, x_input.e, x_input.hint)
    /\ ctx' = x_result'.ctx
    /\ pc' = "checked"
    /\ UNCHANGED <<module, result, todo, count, grew, pass_start, iteration, first_check, x_input>>

NextExpr == CheckExpression

SpecExpr == InitExpr /\ [][NextExpr]_vars

(***************************************************************************)
(* Single functions, checked by type_check_function in the context of the  *)
(* module of expression_globals, outside every function.                   *)
(***************************************************************************)
function_context == add_globals(new_context(0), expression_globals)

FunctionArguments ==
    {<<>>, <<argument("x", Int_t)>>, <<argument("xs", array_type(Int_t, 2)), argument("x", Int_t)>>,
     <<argument("x", Int_t), argument("x", Bool_t)>>}

ReturnTypes == {Int_t, Bool_t, Void_t, optional_type(Int_t), slice_type(Int_t)}

FunctionBodies ==
    {name_ref("x"), name_ref("xs"), literal(Int_t), nil_expr, name_ref("nobody"),
     block(<<name_ref("x")>>), call("inc", <<name_ref("x")>>),
     for_loop("v", name_ref("xs"), name_ref("v")),
     binding_expr(<<name_binding("y", name_ref("x"), FALSE)>>, name_ref("y"))}

Functions ==
    {function("f", args, ret, body) :
        args \in FunctionArguments, ret \in ReturnTypes, body \in FunctionBodies}

InitFun ==
    /\ module = NoModule
    /\ ctx = function_context
    /\ pc = "function"
    /\ result = "running"
    /\ todo = {}
    /\ count = 0
    /\ grew = FALSE
    /\ pass_start = NoModule
    /\ iteration = 0
    /\ first_check = NoModule
    /\ x_input \in [e : Functions, hint : {NoHint}]
    /\ x_result = NoResult

\* type_check_function(ctx, fun)
CheckOneFunction ==
    /\ pc = "function"
    /\ x_result' = type_check_function(ctx, x_input.e)
    /\ ctx' = x_result'.ctx
    /\ pc' = "function checked"
    /\ UNCHANGED <<module, result, todo, count, grew, pass_start, iteration, first_check, x_input>>

NextFun == CheckOneFunction

SpecFun == InitFun /\ [][NextFun]_vars

(***************************************************************************)
(* Single calls, handed to resolve_generic_args_in_call as type_check_call *)
(* does: the callee resolves to a function type with as many parameters    *)
(* as the call has arguments.                                              *)
(***************************************************************************)
GenericCalls ==
    {cl \in {call(callee, args) :
                callee \in {"inc", "id", "wrap", "pair", "apply"},
                args \in UNION {[1..n -> {literal(Int_t), literal(Bool_t), name_ref("i"),
                                          name_ref("t"), name_ref("g"), name_ref("nobody"),
                                          generic_lambda}] : n \in 1..MaxArguments}} :
        Len(resolve(expression_context, cl.callee.name).typ.args) = Len(cl.args)}

InitGen ==
    /\ module = NoModule
    /\ ctx = expression_context
    /\ pc = "call"
    /\ result = "running"
    /\ todo = {}
    /\ count = 0
    /\ grew = FALSE
    /\ pass_start = NoModule
    /\ iteration = 0
    /\ first_check = NoModule
    /\ x_input \in [e : GenericCalls, hint : {NoHint}]
    /\ x_result = NoResult

\* resolve_generic_args_in_call(ctx, ft, c)
ResolveGenericArgs ==
    /\ pc = "call"
    /\ x_result' = resolve_generic_args_in_call(ctx, resolve(ctx, x_input.e.callee.name).typ,
                                                x_input.e)
    /\ ctx' = x_result'.ctx
    /\ pc' = "call resolved"
    /\ UNCHANGED <<module, result, todo, count, grew, pass_start, iteration, first_check, x_input>>

NextGen == ResolveGenericArgs

SpecGen == InitGen /\ [][NextGen]_vars

(***************************************************************************)
(* Pairs of types, handed to is_instantiation_of.                          *)
(***************************************************************************)
ConcreteTypes ==
    {Int_t, Bool_t, optional_type(Int_t), optional_type(Bool_t), slice_type(Int_t),
     ptr_type(Int_t), array_type(Int_t, 2), array_type(Int_t, 3), array_type(Bool_t, 2),
     func_type(<<Int_t>>, Int_t), func_type(<<Int_t, Int_t>>, Int_t), func_type(<<Bool_t>>, Bool_t),
     Point, struct_type("Point", <<struct_member("x", Int_t)>>), Shape,
     sum_type("Shape", <<sum_type_case("Circle", Int_t)>>)}

GenericTypes ==
    {T_t, optional_type(T_t), slice_type(T_t), ptr_type(T_t), array_type(T_t, 2),
     func_type(<<T_t>>, Int_t), func_type(<<T_t>>, T_t),
     struct_type("Point", <<struct_member("x", T_t), struct_member("y", Int_t)>>),
     sum_type("Shape", <<sum_type_case("Circle", T_t), sum_type_case("Empty", Int_t)>>),
     Int_t, optional_type(Int_t), array_type(Int_t, 2), Point}

InitInst ==
    /\ module = NoModule
    /\ ctx = new_context(0)
    /\ pc = "types"
    /\ result = "running"
    /\ todo = {}
    /\ count = 0
    /\ grew = FALSE
    /\ pass_start = NoModule
    /\ iteration = 0
    /\ first_check = NoModule
    /\ x_input \in [concrete_type : ConcreteTypes, generic_type : GenericTypes]
    /\ x_result = NoResult

\* is_instantiation_of(concrete_type, generic_type)
CheckInstantiation ==
    /\ pc = "types"
    /\ x_result' = [value |-> is_instantiation_of(x_input.concrete_type, x_input.generic_type)]
    /\ pc' = "types compared"
    /\ UNCHANGED <<module, ctx, result, todo, count, grew, pass_start, iteration, first_check,
                   x_input>>

NextInst == CheckInstantiation

SpecInst == InitInst /\ [][NextInst]_vars

(***************************************************************************)
(* Properties of type_check_module.                                        *)
(***************************************************************************)
function_count(m) == Cardinality(DOMAIN m.functions)

\* The functions the failing pass finished before the error.
visited_functions == DOMAIN module.functions \ todo

\* The error came out of the loop over the functions.
failed_in_functions == result = "Err" /\ todo # {} /\ todo \subseteq DOMAIN module.functions

\* A type without Unknown and without Generic.
is_concrete(t) == ~is_unknown(t) /\ ~is_generic(t)

\* The Call nodes of the body of function n.
calls_of(n) == {e \in nodes(module.functions[n].expression) : e.kind = "Call"}

module_function_names == DOMAIN module.functions \cup DOMAIN module.externals

\* The arguments of function type of function n.
function_typed_args(n) ==
    {module.functions[n].sig.args[i].name :
        i \in {j \in DOMAIN module.functions[n].sig.args : module.functions[n].sig.args[j].typ.k = "Func"}}

\* C1: whenever type_check_module returns Ok, every function of the module,
\* the clones added by instantiate_generics in any iteration included, has
\* type_checked = true.
C1_OkAllTypeChecked ==
    result = "Ok" => \A n \in DOMAIN module.functions : module.functions[n].type_checked

\* Ok after more than one iteration, with a clone that an iteration added.
C1_Witness ==
    /\ result = "Ok"
    /\ iteration > 1
    /\ full_name_of("id<Int>") \in DOMAIN module.functions
    /\ module.functions[full_name_of("id<Int>")].type_checked

\* C2: the loop of type_check_module terminates, and it exits in exactly the
\* iteration in which instantiate_generics left the function count
\* unchanged: it never exits while the count grew and never goes on when it
\* did not.
C2_LoopExitsAtFixpoint ==
    /\ <>(pc = "done")
    /\ [][(pc = "functions" /\ todo = {} /\ pc' # pc)
            => /\ pc' \in {"done", "loop"}
               /\ (pc' = "done") <=> (function_count(module') = function_count(module))
               /\ (pc' = "done") => result' = "Ok"]_vars

\* The loop went on twice because the count grew and then exited.
C2_Witness == pc = "done" /\ result = "Ok" /\ iteration = 3 /\ ~grew

C4_OkAllTypesConcrete ==
    result = "Ok" =>
        \A n \in DOMAIN module.functions :
            ~is_generic_function(module.functions[n]) =>
                \A e \in nodes(module.functions[n].expression) : is_concrete(node_type(e))

C6_SecondCheckSameAst ==
    (pc = "done" /\ first_check # NoModule) => (result = "Ok" /\ module = first_check)

(***************************************************************************)
(* Properties of type_check_expression.                                    *)
(***************************************************************************)
\* The check of an operand or element on its own.
checked_alone(e) == type_check_expression(expression_context, e, NoHint)

checked_binary(ops) ==
    pc = "checked" /\ x_input.e.kind = "BinaryOp" /\ x_input.e.operator \in ops

\* Both operands check, to types without a Generic.
operands_typed ==
    /\ checked_alone(x_input.e.left).ok /\ ~is_generic(checked_alone(x_input.e.left).typ)
    /\ checked_alone(x_input.e.right).ok /\ ~is_generic(checked_alone(x_input.e.right).typ)

left_type == checked_alone(x_input.e.left).typ

right_type == checked_alone(x_input.e.right).typ

converts_to_bool(t) == t = Bool_t \/ can_convert(Bool_t, t)

\* The check succeeded with type t, returned and recorded on the node.
checked_as(t) == x_result.ok /\ x_result.typ = t /\ node_type(x_result.e) = t

checked_array(n) ==
    pc = "checked" /\ x_input.e.kind = "ArrayLiteral" /\ Len(x_input.e.elements) = n

element_types == [i \in DOMAIN x_input.e.elements |-> checked_alone(x_input.e.elements[i])]

\* C7: for || with operands that are not generic, Optional(T) || T has the
\* type T, returned and recorded; Bool || Bool has the type Bool; T ||
\* Optional(T) is under the boolean rule: both operands must convert to
\* Bool or the check fails.
C7_OrRule ==
    (checked_binary({"Or"}) /\ operands_typed) =>
        /\ is_optional_of(left_type, right_type) => checked_as(right_type)
        /\ (left_type = Bool_t /\ right_type = Bool_t) => checked_as(Bool_t)
        /\ is_optional_of(right_type, left_type) =>
              /\ ~(converts_to_bool(left_type) /\ converts_to_bool(right_type)) => ~x_result.ok
              /\ x_result.ok => checked_as(Bool_t)

\* oi || i was checked to Int.
C7_Witness ==
    /\ checked_binary({"Or"})
    /\ x_input.e.left = name_ref("oi")
    /\ x_input.e.right = name_ref("i")
    /\ checked_as(Int_t)

\* C8: == and != fail whenever one operand has type Nil and the type of the
\* other is not an Optional (stated for another operand that is not nil
\* itself).
C8_NilWithNonOptionalFails ==
    (checked_binary({"Equals", "NotEquals"}) /\ operands_typed) =>
        /\ (left_type = Nil_t /\ right_type # Nil_t /\ ~is_optional(right_type)) => ~x_result.ok
        /\ (right_type = Nil_t /\ left_type # Nil_t /\ ~is_optional(left_type)) => ~x_result.ok

\* C9: an empty array literal checked with the hint Array(T,0) gets the
\* type Array(T,0), for every T.
C9_EmptyLiteralTakesHint ==
    (checked_array(0) /\ x_input.hint # NoHint) => checked_as(x_input.hint)

\* C10: without a hint, the empty literal has the type Array(Int,0); a
\* literal of N > 0 elements that check succeeds only if all elements have
\* one type E, then with the type Array(E,N), and fails if two elements
\* differ in type.
C10_ArrayLiteralOneElementType ==
    (pc = "checked" /\ x_input.e.kind = "ArrayLiteral" /\ x_input.hint = NoHint) =>
        /\ checked_array(0) => checked_as(array_type(Int_t, 0))
        /\ (~checked_array(0) /\ \A i \in DOMAIN element_types : element_types[i].ok) =>
              /\ x_result.ok <=> \A i, j \in DOMAIN element_types : element_types[i].typ = element_types[j].typ
              /\ x_result.ok => checked_as(array_type(element_types[1].typ, Len(x_input.e.elements)))

(***************************************************************************)
(* Properties of type_check_if.                                            *)
(***************************************************************************)
\* An if expression was checked; its condition converts to Bool and its
\* branches check on their own.
checked_if ==
    /\ pc = "checked" /\ x_input.e.kind = "If"
    /\ type_check_with_conversion(expression_context, x_input.e.condition, Bool_t).ok
    /\ checked_alone(x_input.e.on_true).ok
    /\ x_input.e.on_false # <<>> => checked_alone(x_input.e.on_false[1]).ok

then_type == checked_alone(x_input.e.on_true).typ

else_type == checked_alone(x_input.e.on_false[1]).typ

\* One branch has the type Nil and the other a type that is not Nil.
nil_then == checked_if /\ x_input.e.on_false # <<>> /\ then_type = Nil_t /\ else_type # Nil_t

nil_else == checked_if /\ x_input.e.on_false # <<>> /\ else_type = Nil_t /\ then_type # Nil_t

\* e wrapped in a ToOptional node of the type Optional(t).
wrapped(e, t) == to_optional(checked_alone(e).e, optional_type(t))

\* C11: an if expression with a branch of the type Nil and a branch of a
\* type T that is not Nil has, in either orientation, the type
\* Optional(T), recorded and returned, and the branch of the type T is
\* wrapped in a ToOptional node.
C11_IfLiftsToOptional ==
    /\ nil_then =>
          /\ checked_as(optional_type(else_type))
          /\ x_result.e.on_false = <<wrapped(x_input.e.on_false[1], else_type)>>
    /\ nil_else =>
          /\ checked_as(optional_type(then_type))
          /\ x_result.e.on_true = wrapped(x_input.e.on_true, then_type)

\* C12 as stated: after the check of an if expression with a branch of the
\* type Nil and a branch of another type, the Nil branch is a ToOptional
\* node.
C12_NilBranchWrapped ==
    /\ (nil_then /\ x_result.ok) => x_result.e.on_true.kind = "ToOptional"
    /\ (nil_else /\ x_result.ok) => x_result.e.on_false[1].kind = "ToOptional"

\* C12, amended: the Nil branch is never wrapped, it stays as it was
\* checked; the conversion rewrites the other branch.
C12_NilBranchKept ==
    /\ (nil_then /\ x_result.ok) =>
          /\ x_result.e.on_true = checked_alone(x_input.e.on_true).e
          /\ x_result.e.on_true.kind # "ToOptional"
          /\ x_result.e.on_false # <<checked_alone(x_input.e.on_false[1]).e>>
    /\ (nil_else /\ x_result.ok) =>
          /\ x_result.e.on_false = <<checked_alone(x_input.e.on_false[1]).e>>
          /\ x_result.e.on_false[1].kind # "ToOptional"
          /\ x_result.e.on_true # checked_alone(x_input.e.on_true).e

\* if b then 1 else nil was checked: 1 is wrapped, nil is not.
C12_Witness ==
    /\ nil_else /\ x_result.ok
    /\ x_input.e.on_true = literal(Int_t)
    /\ x_result.e.on_true = to_optional(literal(Int_t), optional_type(Int_t))
    /\ x_result.e.on_false = <<nil_expr>>

\* C13: an if expression without else checks only if its then branch has
\* the type Void; with every other type of the then branch, Nil included,
\* the check fails, and no branch is lifted to an Optional.
C13_NoElseNeedsVoid ==
    (checked_if /\ x_input.e.on_false = <<>>) =>
        /\ x_result.ok <=> then_type = Void_t
        /\ x_result.ok => checked_as(Void_t)
        /\ x_result.e.on_true = checked_alone(x_input.e.on_true).e
        /\ x_result.e.on_false = <<>>

\* if b then nil, without else, was checked and failed.
C13_Witness ==
    /\ checked_if /\ x_input.e.on_false = <<>>
    /\ x_input.e.on_true = nil_expr
    /\ ~x_result.ok /\ x_result.err = type_error

(***************************************************************************)
(* Properties of type_check_cast.                                          *)
(***************************************************************************)
NumericTypes == {Int_t, UInt_t, Float_t}

\* A cast was checked whose source checks on its own.
checked_cast ==
    pc = "checked" /\ x_input.e.kind = "Cast" /\ checked_alone(x_input.e.inner).ok

\* C14: a cast whose source type or destination type is not one of Int,
\* UInt and Float fails with a type error.
C14_CastOutsideNumericFails ==
    (/\ checked_cast
     /\ \/ checked_alone(x_input.e.inner).typ \notin NumericTypes
        \/ x_input.e.destination_type \notin NumericTypes) =>
        ~x_result.ok /\ x_result.err = type_error

\* The cast of an Int to Bool was checked and failed.
C14_Witness ==
    /\ checked_cast
    /\ checked_alone(x_input.e.inner).typ = Int_t
    /\ x_input.e.destination_type = Bool_t
    /\ ~x_result.ok /\ x_result.err = type_error

(***************************************************************************)
(* Properties of type_check_member_access.                                 *)
(***************************************************************************)
\* The receiver of a member access, checked on its own, and its type
\* behind one level of Pointer.
receiver == checked_alone(x_input.e.left)

receiver_type == IF receiver.typ.k = "Pointer" THEN receiver.typ.e ELSE receiver.typ

\* A member call on a receiver of a struct or sum type was checked.
checked_member_call ==
    /\ pc = "checked" /\ x_input.e.kind = "MemberAccess" /\ x_input.e.right.kind = "Call"
    /\ receiver.ok /\ receiver_type.k \in {"Struct", "Sum"}

\* obj itself if its type is a Pointer, &obj otherwise.
first_argument == IF receiver.typ.k = "Pointer" THEN receiver.e ELSE address_of(receiver.e)

\* The plain call S.f([first] ++ args).
plain_call ==
    call(receiver_type.name \o "." \o x_input.e.right.callee.name,
         <<first_argument>> \o x_input.e.right.args)

\* C15: a member call obj.f(args) on a receiver that is, behind at most one
\* Pointer, of the struct or sum type S is checked as the plain call
\* S.f([first] ++ args) is, first being obj if the type of obj is a Pointer
\* and &obj otherwise; the node is replaced by that call and the type is the
\* return type of the call.
C15_MemberCallIsPlainCall ==
    checked_member_call =>
        /\ x_result = type_check_call(receiver.ctx, plain_call)
        /\ x_result.ok =>
              /\ x_result.e.kind = "Call"
              /\ x_result.e.callee.name = full_name_of(plain_call.callee.name)
              /\ Len(x_result.e.args) = Len(x_input.e.right.args) + 1
              /\ x_result.e.args[1] =
                    IF receiver.typ.k = "Pointer" THEN receiver.e
                    ELSE [address_of(receiver.e) EXCEPT !.typ = ptr_type(receiver.typ)]
              /\ checked_as(resolve(expression_context, plain_call.callee.name).typ.ret)

\* q.sum() on the Point q was checked as Point.sum(&q), to Int.
C15_Witness ==
    /\ checked_member_call
    /\ x_input.e.left = name_ref("q") /\ x_input.e.right = call("sum", <<>>)
    /\ checked_as(Int_t)
    /\ x_result.e.callee.name = full_name_of("Point.sum")
    /\ x_result.e.args = <<[address_of(receiver.e) EXCEPT !.typ = ptr_type(Point)]>>

(***************************************************************************)
(* Properties of type_check_call.                                          *)
(***************************************************************************)
checked_call == pc = "checked" /\ x_input.e.kind = "Call"

\* What the name of the callee resolves to.
callee == resolve(expression_context, x_input.e.callee.name)

\* C16: a call with another number of arguments than the callee has
\* parameters fails with a type error before an argument is checked; a
\* callee that does not resolve is an unknown-name error; a callee that is
\* not a function is the (type) error "is not callable"; on success the
\* type returned is the return type recorded in the call, the return type
\* of the callee made concrete by the generic arguments of the call.
C16_CallRule ==
    checked_call =>
        /\ ~callee.found => ~x_result.ok /\ x_result.err = unknown_name /\ x_result.e = x_input.e
        /\ (callee.found /\ callee.typ.k # "Func") =>
              /\ ~x_result.ok /\ x_result.err = type_error
              /\ x_result.e.args = x_input.e.args
        /\ (callee.found /\ callee.typ.k = "Func"
                /\ Len(callee.typ.args) # Len(x_input.e.args)) =>
              /\ ~x_result.ok /\ x_result.err = type_error
              /\ x_result.e.args = x_input.e.args
              /\ x_result.ctx = expression_context
        /\ x_result.ok =>
              /\ x_result.typ = x_result.e.return_type
              /\ x_result.typ = make_concrete(x_result.e.generic_args, callee.typ.ret)

\* inc(nobody, 1) failed on the number of arguments, not on the unknown
\* name of its first argument.
C16_Witness ==
    /\ checked_call
    /\ x_input.e.callee.name = "inc"
    /\ x_input.e.args = <<name_ref("nobody"), literal(Int_t)>>
    /\ ~x_result.ok /\ x_result.err = type_error

(***************************************************************************)
(* Properties of type_check_match.                                         *)
(***************************************************************************)
\* A match was checked whose target checks on its own.
checked_match ==
    pc = "checked" /\ x_input.e.kind = "Match" /\ checked_alone(x_input.e.target).ok

target_type == checked_alone(x_input.e.target).typ

\* The loop over the cases, without the test for exhaustiveness.
cases_checked ==
    type_check_match_cases(expression_context,
                           [x_input.e EXCEPT !.target = checked_alone(x_input.e.target).e],
                           1, target_type, Unknown_t)

\* The scope of a case body: what the patterns bind.
binder_context ==
    add_args(push_stack(expression_context, FALSE),
             <<argument("v", Int_t), argument("h", Int_t), argument("tl", slice_type(Int_t)),
               argument("r", Int_t), argument("x", Int_t), argument("y", Int_t),
               argument("z", Int_t)>>, 1).ctx

\* The case bodies, each checked on its own.
bodies ==
    [i \in DOMAIN x_input.e.cases |->
        type_check_expression(binder_context, x_input.e.cases[i].to_execute, NoHint)]

\* The cases whose body has a type that is not Unknown.
typed_cases == {i \in DOMAIN bodies : bodies[i].typ # Unknown_t}

\* C17: type_check_match returns Ok only if every case body checks, every
\* body from the first one of a type that is not Unknown on has that type,
\* which is returned and recorded, and check_match_is_exhaustive accepts
\* the match; exhaustiveness is tested only after all cases checked, so the
\* error of a case is returned whether or not the match is exhaustive.
C17_MatchSameTypeThenExhaustive ==
    checked_match =>
        /\ x_result.ok =>
              /\ \A i \in DOMAIN bodies : bodies[i].ok
              /\ \A i \in typed_cases : \A j \in DOMAIN bodies :
                    (\A k \in typed_cases : i <= k) /\ j >= i => bodies[j].typ = bodies[i].typ
              /\ \A i \in typed_cases : checked_as(bodies[i].typ)
              /\ typed_cases = {} => checked_as(Unknown_t)
              /\ check_match_is_exhaustive(x_input.e, target_type)
        /\ x_result.ok <=> (cases_checked.ok /\ check_match_is_exhaustive(x_input.e, target_type))
        /\ ~cases_checked.ok => x_result.err = cases_checked.err /\ x_result.err # non_exhaustive
        /\ x_result.err = non_exhaustive => cases_checked.ok

\* match oi { nil => nobody } is not exhaustive and its case fails: the
\* error is the unknown name of the case.
C17_Witness ==
    /\ checked_match
    /\ x_input.e.target = name_ref("oi")
    /\ x_input.e.cases = <<match_case(nil_pattern, name_ref("nobody"))>>
    /\ ~check_match_is_exhaustive(x_input.e, target_type)
    /\ ~x_result.ok /\ x_result.err = unknown_name

(***************************************************************************)
(* Properties of type_check_binding_expression.                            *)
(***************************************************************************)
checked_let == pc = "checked" /\ x_input.e.kind = "Binding"

\* The bindings declared in a new frame, and the first check of the body.
declared == type_check_bindings(push_stack(expression_context, FALSE), x_input.e, 1)

first_try == type_check_expression(declared.ctx, declared.e.expression, NoHint)

\* The name bindings of this expression for the name of the UnknownType
\* error of the body.
bound_here ==
    {k \in DOMAIN x_input.e.bindings :
        x_input.e.bindings[k].binding_type = [kind |-> "Name", name |-> first_try.err.name]}

retried == CHOOSE k \in bound_here : \A j \in bound_here : k <= j

\* The one retry: the initializer with the expected type as hint, then the
\* body in the scope with the updated entry.
init_retry ==
    type_check_expression(first_try.ctx, declared.e.bindings[retried].init, first_try.err.expected)

body_retry ==
    type_check_expression(update(init_retry.ctx, first_try.err.name, init_retry.typ,
                                 x_input.e.bindings[retried].mutable),
                          first_try.e, NoHint)

\* C18: the check of a binding expression retries at most once.  If the
\* body raises UnknownType(name, expected) and name is a name binding of
\* the expression, the initializer of that binding is checked again with
\* expected as hint, the entry of the scope is updated and the body is
\* checked again, once; an error of the retry, a second UnknownType
\* included, is returned as it is; every other error of the body is
\* returned as it is.
C18_OneUnknownTypeRetry ==
    (checked_let /\ declared.ok) =>
        /\ first_try.ok => checked_as(first_try.typ)
        /\ (~first_try.ok /\ first_try.err.kind # "UnknownType") =>
              ~x_result.ok /\ x_result.err = first_try.err
        /\ (~first_try.ok /\ first_try.err.kind = "UnknownType" /\ bound_here # {}) =>
              /\ ~init_retry.ok => ~x_result.ok /\ x_result.err = init_retry.err
              /\ (init_retry.ok /\ ~body_retry.ok) => ~x_result.ok /\ x_result.err = body_retry.err
              /\ (init_retry.ok /\ body_retry.ok) =>
                    /\ checked_as(body_retry.typ)
                    /\ x_result.e.bindings[retried].typ = init_retry.typ
                    /\ x_result.e.bindings[retried].init = init_retry.e
        /\ x_result.ctx.uuid <= 1

\* let f = @(a) -> a in apply(f, 1) was checked to Int: the lambda was
\* checked once with the hint (Int) -> Int.
C18_Witness ==
    /\ checked_let
    /\ x_input.e.bindings = <<name_binding("f", generic_lambda, FALSE)>>
    /\ x_input.e.expression = call("apply", <<name_ref("f"), literal(Int_t)>>)
    /\ first_try.err = unknown_type("f", IntToInt)
    /\ checked_as(Int_t)
    /\ x_result.e.bindings[1].typ = IntToInt
    /\ x_result.ctx.uuid = 1

(***************************************************************************)
(* Properties of type_check_for and type_check_assign.                     *)
(***************************************************************************)
checked_for ==
    pc = "checked" /\ x_input.e.kind = "For" /\ checked_alone(x_input.e.iterable).ok

\* C19: after type_check_for returned Ok the scope stack is as deep as
\* before the call and the loop variable resolves no more, unless an outer
\* binding has its name; an iterable that is not a String, an Array or a
\* Slice is rejected.
C19_LoopVariableScoped ==
    checked_for =>
        /\ x_result.ok =>
              /\ Len(x_result.ctx.stack) = Len(expression_context.stack)
              /\ ~resolve(expression_context, x_input.e.loop_variable).found =>
                    ~resolve(x_result.ctx, x_input.e.loop_variable).found
        /\ checked_alone(x_input.e.iterable).typ.k \notin {"String", "Array", "Slice"} =>
              ~x_result.ok

checked_assign == pc = "checked" /\ x_input.e.kind = "Assign"

\* The left side is a name that resolves to a mutable binding.
assignable ==
    /\ x_input.e.left.kind = "NameRef"
    /\ resolve(expression_context, x_input.e.left.name).found
    /\ resolve(expression_context, x_input.e.left.name).mutable

\* The right side converted to the type of the left side.
right_converted ==
    type_check_with_conversion(expression_context, x_input.e.right,
                               checked_alone(x_input.e.left).typ)

\* C20: an assignment checks only if its left side is a name that resolves
\* to a mutable binding; otherwise it fails before the right side is
\* checked; on success the right side is converted to the type of the left
\* side and the type is Void.
C20_AssignNeedsMutableName ==
    checked_assign =>
        /\ x_result.ok => assignable
        /\ ~assignable =>
              /\ ~x_result.ok
              /\ x_result.e.right = x_input.e.right
              /\ x_result.err = IF checked_alone(x_input.e.left).ok THEN type_error
                                ELSE checked_alone(x_input.e.left).err
        /\ assignable =>
              /\ x_result.ok <=> right_converted.ok
              /\ x_result.e.right = right_converted.e
              /\ x_result.ok => checked_as(Void_t) /\ right_converted.typ = checked_alone(x_input.e.left).typ

\* mo = 1 was checked: 1 is wrapped to the type ?Int of mo.
C20_Witness ==
    /\ checked_assign /\ assignable
    /\ x_input.e.left = name_ref("mo") /\ x_input.e.right = literal(Int_t)
    /\ checked_as(Void_t)
    /\ x_result.e.right = to_optional(literal(Int_t), optional_type(Int_t))

(***************************************************************************)
(* Properties of type_check_function.                                      *)
(***************************************************************************)
checked_function == pc = "function checked"

\* The context in which the body is checked: one function-boundary frame
\* with the arguments.
body_context == add_args(push_stack(function_context, TRUE), x_input.e.sig.args, 1)

\* The body checked without hint in that context.
body_checked == type_check_expression(body_context.ctx, x_input.e.expression, NoHint)

\* C21: checking a function pushes one function-boundary frame, declares
\* the arguments in it, checks the body without hint and pops that frame;
\* a body whose type differs from the return type is replaced by a
\* conversion wrapper if there is one, otherwise the check fails;
\* type_checked becomes true exactly when the check succeeds.
C21_FunctionFrame ==
    checked_function =>
        /\ x_result.ok <=>
              /\ body_context.ok /\ body_checked.ok
              /\ \/ body_checked.typ = x_input.e.sig.return_type
                 \/ can_convert(x_input.e.sig.return_type, body_checked.typ)
        /\ x_result.ok =>
              /\ x_result.ctx.stack = function_context.stack
              /\ x_result.typ = x_input.e.sig.typ
              /\ x_result.e.expression =
                    IF body_checked.typ = x_input.e.sig.return_type THEN body_checked.e
                    ELSE convert(x_input.e.sig.return_type, body_checked.typ, body_checked.e)
        /\ x_result.e.type_checked = x_result.ok

(***************************************************************************)
(* Properties of resolve_generic_args_in_call.                             *)
(***************************************************************************)
RECURSIVE generic_names(_)
\* The names of the generic parameters of a type.
generic_names(t) ==
    CASE t.k = "Generic" -> {t.name}
      [] t.k \in {"Optional", "Array", "Slice", "Pointer"} -> generic_names(t.e)
      [] t.k = "Func" ->
            generic_names(t.ret) \cup UNION {generic_names(t.args[i]) : i \in DOMAIN t.args}
      [] OTHER -> {}

generic_args_resolved == pc = "call resolved" /\ x_result.ok

\* The type of the callee.
callee_type == resolve(expression_context, x_input.e.callee.name).typ

\* Every iteration but the last added an entry, the last added none.
counts_grow_until_last ==
    /\ Len(x_result.counts) >= 1
    /\ \A k \in 1..Len(x_result.counts) - 1 :
          x_result.counts[k] > (IF k = 1 THEN 0 ELSE x_result.counts[k - 1])
    /\ x_result.counts[Len(x_result.counts)] =
          (IF Len(x_result.counts) = 1 THEN 0 ELSE x_result.counts[Len(x_result.counts) - 1])

\* C22: every iteration of the loop of resolve_generic_args_in_call but
\* the last adds an entry to the substitution of the call, the loop stops
\* in the first iteration that adds none, and there are at most one more
\* iterations than the signature of the callee has generic parameter names.
C22_LoopBoundedBySignature ==
    generic_args_resolved =>
        /\ counts_grow_until_last
        /\ Len(x_result.counts) <= 1 + Cardinality(generic_names(callee_type))

\* The generic parameter names of the types of the arguments.
argument_generic_names ==
    UNION {generic_names(x_result.arg_types[i]) : i \in DOMAIN x_result.arg_types}

\* C22, amended: the same, with the bound of one more iteration than there
\* are generic parameter names in the signature of the callee and in the
\* types of the arguments.
C22_LoopBoundedByNames ==
    generic_args_resolved =>
        /\ counts_grow_until_last
        /\ Len(x_result.counts) <=
              1 + Cardinality(generic_names(callee_type) \cup argument_generic_names)

\* wrap(t) with t: $T and wrap(x: $U): the first iteration adds U, the
\* second adds T, the third adds nothing.
C22_Witness ==
    /\ generic_args_resolved
    /\ x_input.e = call("wrap", <<name_ref("t")>>)
    /\ x_result.counts = <<1, 2, 2>>
    /\ generic_names(callee_type) = {"U"}

(***************************************************************************)
(* Properties of is_instantiation_of.                                      *)
(***************************************************************************)
RECURSIVE structural_match(_, _)
\* The structural match: the same shape, a Generic matching every type.
structural_match(concrete, generic) ==
    CASE ~is_generic(generic) -> concrete = generic
      [] generic.k = "Generic" -> TRUE
      [] concrete.k # generic.k -> FALSE
      [] generic.k \in {"Optional", "Slice", "Pointer"} -> structural_match(concrete.e, generic.e)
      [] generic.k = "Array" ->
            concrete.len = generic.len /\ structural_match(concrete.e, generic.e)
      [] generic.k = "Func" ->
            /\ Len(concrete.args) = Len(generic.args)
            /\ \A i \in DOMAIN generic.args : structural_match(concrete.args[i], generic.args[i])
            /\ structural_match(concrete.ret, generic.ret)
      [] generic.k = "Struct" ->
            /\ Len(concrete.members) = Len(generic.members)
            /\ \A i \in DOMAIN generic.members :
                  structural_match(concrete.members[i].typ, generic.members[i].typ)
      [] generic.k = "Sum" ->
            /\ Len(concrete.cases) = Len(generic.cases)
            /\ \A i \in DOMAIN generic.cases :
                  structural_match(concrete.cases[i].typ, generic.cases[i].typ)
      [] OTHER -> FALSE

types_compared == pc = "types compared"

\* C23: is_instantiation_of(concrete, generic) is the structural match of
\* the two types, for every type constructor.
C23_InstantiationIsStructuralMatch ==
    types_compared =>
        x_result.value = structural_match(x_input.concrete_type, x_input.generic_type)

(***************************************************************************)
(* Properties of the patterns of type_check_match.                         *)
(***************************************************************************)
\* The members a struct pattern of that name stands for: those of the
\* struct, or of the struct of the sum case.
pattern_members(name) ==
    LET t == resolve(expression_context, name).typ
    IN IF t.k = "Struct" THEN t.members ELSE t.cases[index_of(t, name)].typ.members

struct_cases == {i \in DOMAIN x_input.e.cases : x_input.e.cases[i].pattern.kind = "Struct"}

\* C24: a match with a struct pattern checks only if the pattern has as
\* many bindings as the struct, or the struct of the sum case, has members;
\* a binding other than `_` has the type of its member in the case body
\* and is out of scope after the match.
C24_StructPatternBindingCount ==
    checked_match /\ x_result.ok =>
        \A i \in struct_cases :
            LET p == x_input.e.cases[i].pattern
                body == x_result.e.cases[i].to_execute
            IN /\ Len(p.bindings) = Len(pattern_members(p.name))
               /\ x_result.ctx.stack = expression_context.stack
               /\ \A j \in DOMAIN p.bindings :
                     body = [name_ref(p.bindings[j]) EXCEPT !.typ = body.typ] /\ p.bindings[j] # "_" =>
                        body.typ = pattern_members(p.name)[j].typ

name_cases == {i \in DOMAIN x_input.e.cases : x_input.e.cases[i].pattern.kind = "Name"}

\* The type the name of the pattern of case i resolves to.
pattern_name_type(i) == resolve(expression_context, x_input.e.cases[i].pattern.nr.name).typ

\* The name of the pattern of case i is a case of the target sum type that
\* carries a struct.
names_struct_case(i) ==
    /\ target_type.k = "Sum"
    /\ index_of(target_type, x_input.e.cases[i].pattern.nr.name) # 0
    /\ target_type.cases[index_of(target_type, x_input.e.cases[i].pattern.nr.name)].typ.k = "Struct"

\* C25: a match with a Name pattern checks only if the type of the name is
\* the target type and the target is an enum, or a sum type of which the
\* name is a case without payload; a Name pattern that names a
\* struct-carrying case, or stands against another target type, is rejected
\* with an error.
C25_NamePatternRule ==
    checked_match =>
        \A i \in name_cases :
            /\ x_result.ok =>
                  /\ resolve(expression_context, x_input.e.cases[i].pattern.nr.name).found
                  /\ pattern_name_type(i) = target_type
                  /\ \/ target_type.k = "Enum"
                     \/ /\ target_type.k = "Sum"
                        /\ index_of(target_type, x_input.e.cases[i].pattern.nr.name) # 0
                        /\ target_type.cases[index_of(target_type,
                              x_input.e.cases[i].pattern.nr.name)].typ = Int_t
            /\ names_struct_case(i) \/ target_type.k \notin {"Sum", "Enum"} =>
                  /\ ~x_result.ok
                  /\ i = 1 => x_result.err \in {type_error, unknown_name}

\* match s { Circle => 1 } with Circle carrying a struct is a type error.
C25_Witness ==
    /\ checked_match
    /\ x_input.e.target = name_ref("s")
    /\ x_input.e.cases = <<match_case(name_pattern("Circle"), literal(Int_t))>>
    /\ names_struct_case(1)
    /\ ~x_result.ok /\ x_result.err = type_error

(***************************************************************************)
(* Properties of the replacement of nodes.                                 *)
(***************************************************************************)
\* What the rule of the node returned.
rule_result == type_check_action(expression_context, x_input.e, x_input.hint)

\* What the rule of the replacement returned, under the same hint.
replacement_result == type_check_action(rule_result.ctx, rule_result.e, x_input.hint)

replaced == rule_result.ok /\ rule_result.replace

\* C26: when the rule of a node returns ReplaceBy(e'), the node becomes e',
\* a Call, and type_check_expression returns what the rule of e' returns
\* under the same hint, which is no further ReplaceBy; without ReplaceBy it
\* returns what the rule of the node returned.
C26_OneReplacement ==
    pc = "checked" =>
        /\ ~x_result.replace
        /\ replaced =>
              /\ rule_result.e.kind = "Call"
              /\ ~replacement_result.replace
              /\ x_result = replacement_result
        /\ ~replaced => x_result = rule_result

\* pq.add(1) was replaced by Point.add(pq, 1) and checked to Int.
C26_Witness ==
    /\ pc = "checked"
    /\ x_input.e = member_access(name_ref("pq"), call("add", <<literal(Int_t)>>))
    /\ replaced
    /\ rule_result.e.callee.name = "Point.add"
    /\ x_result.e.kind = "Call" /\ checked_as(Int_t)

(***************************************************************************)
(* Properties of the scopes of type_check_binding_expression.              *)
(***************************************************************************)
\* C27: whenever type_check_binding_expression returns Ok the scope stack
\* is as deep as when it was entered, also after the retry for an
\* UnknownType error that was raised inside a nested scope of the body.
C27_BindingExpressionKeepsDepth ==
    checked_let /\ x_result.ok => Len(x_result.ctx.stack) = Len(expression_context.stack)

\* The bindings of the binding expression that is the body, declared in
\* its frame, and the check of its body.
inner_declared == type_check_bindings(push_stack(declared.ctx, FALSE), declared.e.expression, 1)

inner_body == type_check_expression(inner_declared.ctx, inner_declared.e.expression, NoHint)

\* The body is a binding expression whose own body raises UnknownType for
\* a name that the enclosing expression binds and the inner one does not.
inner_needs_outer_type ==
    /\ checked_let /\ declared.ok
    /\ x_input.e.expression.kind = "Binding"
    /\ inner_declared.ok
    /\ ~inner_body.ok /\ inner_body.err.kind = "UnknownType"
    /\ \E k \in DOMAIN x_input.e.bindings :
          x_input.e.bindings[k].binding_type = [kind |-> "Name", name |-> inner_body.err.name]
    /\ \A k \in DOMAIN x_input.e.expression.bindings :
          x_input.e.expression.bindings[k].binding_type #
              [kind |-> "Name", name |-> inner_body.err.name]

\* C28: an UnknownType error raised in the body of an inner binding
\* expression for a name of the enclosing binding expression reaches the
\* enclosing expression as that UnknownType error.
C28_UnknownTypeReachesEnclosing ==
    inner_needs_outer_type => first_try.err = inner_body.err

(***************************************************************************)
(* Properties of the globals of type_check_module.                         *)
(***************************************************************************)
\* C29: in every iteration of the loop of type_check_module every global
\* of the module is registered in the context of that iteration before a
\* function is checked.
C29_GlobalsRegisteredEveryPass ==
    pc = "functions" => \A g \in DOMAIN module.globals : lookup(ctx.globals, g).found

(***************************************************************************)
(* Properties of type_check_cast between numeric types.                    *)
(***************************************************************************)
\* C30: a cast whose source type is its destination type fails with a
\* type error, also for Int, UInt and Float; a cast between two different
\* types of Int, UInt and Float succeeds with the destination type.
C30_CastBetweenNumerics ==
    checked_cast =>
        /\ checked_alone(x_input.e.inner).typ = x_input.e.destination_type =>
              ~x_result.ok /\ x_result.err = type_error
        /\ (/\ checked_alone(x_input.e.inner).typ \in NumericTypes
            /\ x_input.e.destination_type \in NumericTypes
            /\ checked_alone(x_input.e.inner).typ # x_input.e.destination_type) =>
              /\ x_result.ok /\ x_result.typ = x_input.e.destination_type
              /\ x_result.e.inner = checked_alone(x_input.e.inner).e

\* The cast of a Float to Float was checked and failed.
C30_Witness ==
    /\ checked_cast
    /\ checked_alone(x_input.e.inner).typ = Float_t
    /\ x_input.e.destination_type = Float_t
    /\ ~x_result.ok /\ x_result.err = type_error

====
